---------------------------- MODULE Spec2Model ----------------------------
(***************************************************************************)
(* Model of the filing parsers of the SFT repository: text normalisation,  *)
(* canonical section catalogs and the item-id map, section matching, the   *)
(* HTML document walker, the chunker and the batch orchestrator.           *)
(*                                                                         *)
(* A Python str is modelled as a sequence of characters; a character is a  *)
(* one-element TLA+ string, and the non-ASCII or control characters the    *)
(* code names are the atoms "ENDASH" (U+2013), "EMDASH" (U+2014), "RSQUO"  *)
(* (U+2019), "NBSP" (U+00A0), "ZWSP" (U+200B), "ZWNJ" (U+200C), "ZWJ"      *)
(* (U+200D), "WJ" (U+2060), "CACUTE" (U+0301, combining acute), "EACUTE"   *)
(* (U+00E9), "NL" (line feed) and "TAB".                                   *)
(***************************************************************************)
EXTENDS Integers, Sequences, FiniteSets, TLC

\* ------------------------------------------------------------------------
\* Characters and generic string operations (Python str semantics)
\* ------------------------------------------------------------------------

LOWER == <<"a","b","c","d","e","f","g","h","i","j","k","l","m",
           "n","o","p","q","r","s","t","u","v","w","x","y","z">>

UPPER == <<"A","B","C","D","E","F","G","H","I","J","K","L","M",
           "N","O","P","Q","R","S","T","U","V","W","X","Y","Z">>

DIGITS == {"0","1","2","3","4","5","6","7","8","9"}

IsUpperChar(c) == \E i \in 1..Len(UPPER) : UPPER[i] = c

IsLowerChar(c) == \E i \in 1..Len(LOWER) : LOWER[i] = c

IsAlpha(c) == IsUpperChar(c) \/ IsLowerChar(c)

IsDigit(c) == c \in DIGITS

\* str.lower() / str.upper() on one character
ToLower(c) == IF IsUpperChar(c) THEN LOWER[CHOOSE i \in 1..Len(UPPER) : UPPER[i] = c] ELSE c

ToUpper(c) == IF IsLowerChar(c) THEN UPPER[CHOOSE i \in 1..Len(LOWER) : LOWER[i] = c] ELSE c

\* Python's whitespace (str.split, str.strip, regex \s)
IsSpace(c) == c \in {" ", "NL", "TAB", "NBSP"}

\* The regex class [ \t\r\f\v]
IsHSpace(c) == c \in {" ", "TAB"}

\* Concatenation of a sequence of strings, by halving (no deep recursion).
RECURSIVE FlattenRange(_, _, _)
FlattenRange(ps, lo, hi) ==
  IF lo > hi THEN <<>>
  ELSE IF lo = hi THEN ps[lo]
  ELSE LET mid == (lo + hi) \div 2
       IN  FlattenRange(ps, lo, mid) \o FlattenRange(ps, mid + 1, hi)

Flatten(ps) == FlattenRange(ps, 1, Len(ps))

\* str.lower() / str.upper()
StrLower(s) == Flatten([i \in 1..Len(s) |-> <<ToLower(s[i])>>])

StrUpper(s) == Flatten([i \in 1..Len(s) |-> <<ToUpper(s[i])>>])

\* p occurs in s at index i (1-based)
MatchAt(s, i, p) ==
  /\ i >= 1
  /\ i + Len(p) - 1 <= Len(s)
  /\ \A j \in 1..Len(p) : s[i + j - 1] = p[j]

\* Python's  p in s
Contains(s, p) == \E i \in 1..(Len(s) - Len(p) + 1) : MatchAt(s, i, p)

\* str.replace(p, r) for a pattern p that cannot overlap itself (its first
\* character occurs nowhere else in it): every occurrence is replaced.
Replace(s, p, r) ==
  Flatten([i \in 1..Len(s) |->
             IF MatchAt(s, i, p) THEN r
             ELSE IF \E k \in 1..(Len(p) - 1) : MatchAt(s, i - k, p) THEN <<>>
             ELSE <<s[i]>>])

\* str.strip()
Strip(s) ==
  LET keep == {i \in 1..Len(s) : ~IsSpace(s[i])}
  IN  IF keep = {} THEN <<>>
      ELSE LET a == CHOOSE i \in keep : \A j \in keep : i <= j
               b == CHOOSE i \in keep : \A j \in keep : i >= j
           IN  SubSeq(s, a, b)

\* re.sub(r"[ \t\r\f\v]+", " ", s)
CollapseHSpace(s) ==
  Flatten([i \in 1..Len(s) |->
             IF IsHSpace(s[i])
             THEN (IF i > 1 /\ IsHSpace(s[i - 1]) THEN <<>> ELSE <<" ">>)
             ELSE <<s[i]>>])

\* re.sub(r"\s*\n\s*", " ", s): every maximal whitespace run holding a line
\* feed becomes one space
CollapseNewlines(s) ==
  LET InNlRun(i) ==
        /\ IsSpace(s[i])
        /\ \E k \in 1..Len(s) :
             /\ s[k] = "NL"
             /\ \A m \in (IF k < i THEN k ELSE i)..(IF k < i THEN i ELSE k) : IsSpace(s[m])
  IN  Flatten([i \in 1..Len(s) |->
                 IF InNlRun(i)
                 THEN (IF i > 1 /\ InNlRun(i - 1) THEN <<>> ELSE <<" ">>)
                 ELSE <<s[i]>>])

\* unicodedata.normalize("NFC", s): of the characters modelled, only a base
\* letter e/E followed by the combining acute composes.
NFC(s) ==
  Flatten([i \in 1..Len(s) |->
             IF s[i] = "e" /\ i < Len(s) /\ s[i + 1] = "CACUTE" THEN <<"EACUTE">>
             ELSE IF s[i] = "CACUTE" /\ i > 1 /\ s[i - 1] = "e" THEN <<>>
             ELSE <<s[i]>>])

\* unidecode(): ASCII transliteration of one character
UnidecodeChar(c) ==
  CASE c = "ENDASH" -> <<"-">>
    [] c = "EMDASH" -> <<"-", "-">>
    [] c = "RSQUO"  -> <<"'">>
    [] c = "NBSP"   -> <<" ">>
    [] c = "EACUTE" -> <<"e">>
    [] c \in {"CACUTE", "ZWSP", "ZWNJ", "ZWJ", "WJ"} -> <<>>
    [] OTHER -> <<c>>

unidecode(s) == Flatten([i \in 1..Len(s) |-> UnidecodeChar(s[i])])

\* ------------------------------------------------------------------------
\* Text normaliser (clean_text), one definition per variant in the source
\* ------------------------------------------------------------------------

NON_PRINTING == {"ZWSP", "ZWNJ", "ZWJ", "WJ"}

AMP_ENTITY == <<"&","a","m","p",";">>

NBSP_ENTITY == <<"&","n","b","s","p",";">>

NotNonPrinting(c) == c \notin NON_PRINTING

\* parsers/parser_10-k.py and sft_parsers/parser_8_K.py
clean_text(text) ==
  IF text = <<>> THEN <<>>
  ELSE LET t1 == SelectSeq(text, NotNonPrinting)
           t2 == Replace(t1, AMP_ENTITY, <<"&">>)
           t3 == NFC(t2)
           t4 == unidecode(t3)
       IN  Strip(CollapseHSpace(t4))

\* parsers/parser_DEF 14A.py
clean_text_def14a(text) ==
  IF text = <<>> THEN <<>>
  ELSE LET t1 == SelectSeq(text, NotNonPrinting)
           t2 == Replace(Replace(Replace(t1, NBSP_ENTITY, <<" ">>),
                                 AMP_ENTITY, <<"&">>),
                         <<"NBSP">>, <<" ">>)
           t3 == NFC(t2)
           t4 == unidecode(t3)
       IN  Strip(CollapseHSpace(t4))

\* sft_parsers/parser_10-Q.py
clean_text_10q(text) ==
  IF text = <<>> THEN <<>>
  ELSE LET t1 == SelectSeq(text, NotNonPrinting)
           t2 == Replace(Replace(t1, AMP_ENTITY, <<"&">>), NBSP_ENTITY, <<" ">>)
           t3 == NFC(t2)
           t4 == unidecode(t3)
       IN  Strip(CollapseNewlines(CollapseHSpace(t4)))

FORM_10K == "10-K"

FORM_10Q == "10-Q"

FORM_DEF14A == "DEF 14A"

FORM_8K == "8-K"

Forms == {FORM_10K, FORM_10Q, FORM_DEF14A, FORM_8K}

\* the normaliser of the parser of a form type
CleanText(form, text) ==
  CASE form = FORM_DEF14A -> clean_text_def14a(text)
    [] form = FORM_10Q    -> clean_text_10q(text)
    [] OTHER              -> clean_text(text)

\* ------------------------------------------------------------------------
\* ITEM_ID_RE and the item-id map
\* ------------------------------------------------------------------------

ITEM_WORD == <<"i","t","e","m">>

\* first index at or after j that is not whitespace (Len(s)+1 when none)
SpaceRunEnd(s, j) ==
  CHOOSE k \in j..(Len(s) + 1) :
    /\ k = Len(s) + 1 \/ ~IsSpace(s[k])
    /\ \A m \in j..(k - 1) : IsSpace(s[m])

\* last index of the maximal run of [A-Za-z0-9] starting at j (j-1 when empty)
AlnumRunEnd(s, j) ==
  CHOOSE k \in (j - 1)..Len(s) :
    /\ \A m \in j..k : IsAlpha(s[m]) \/ IsDigit(s[m])
    /\ k = Len(s) \/ ~(IsAlpha(s[k + 1]) \/ IsDigit(s[k + 1]))

\* item\s+\d  matches at index i (re.I)
ItemTokenAt(s, i) ==
  /\ i >= 1
  /\ i + 4 <= Len(s)
  /\ \A j \in 1..4 : ToLower(s[i + j - 1]) = ITEM_WORD[j]
  /\ IsSpace(s[i + 4])
  /\ LET d == SpaceRunEnd(s, i + 4) IN d <= Len(s) /\ IsDigit(s[d])

\* group(1) of  item\s+(\d{1,2}[a-zA-Z]?)  matched at i  (10-K, DEF 14A, and
\* 10-Q, whose trailing \.? lies outside the group)
ItemGroupAt(s, i) ==
  LET d  == SpaceRunEnd(s, i + 4)
      e1 == IF d + 1 <= Len(s) /\ IsDigit(s[d + 1]) THEN d + 1 ELSE d
      e2 == IF e1 + 1 <= Len(s) /\ IsAlpha(s[e1 + 1]) THEN e1 + 1 ELSE e1
  IN  SubSeq(s, d, e2)

\* group(1) of  item\s+(\d{1,2}\.?[A-Za-z0-9]*)  matched at i  (8-K)
ItemGroupAt8K(s, i) ==
  LET d  == SpaceRunEnd(s, i + 4)
      e1 == IF d + 1 <= Len(s) /\ IsDigit(s[d + 1]) THEN d + 1 ELSE d
      e2 == IF e1 + 1 <= Len(s) /\ s[e1 + 1] = "." THEN e1 + 1 ELSE e1
  IN  SubSeq(s, d, AlnumRunEnd(s, e2 + 1))

HasItemToken(s) == \E i \in 1..Len(s) : ItemTokenAt(s, i)

FirstItemToken(s) ==
  CHOOSE i \in 1..Len(s) : ItemTokenAt(s, i) /\ \A j \in 1..(i - 1) : ~ItemTokenAt(s, j)

\* f"ITEM {m.group(1).upper()}" for m = ITEM_ID_RE.search(s); <<>> when no match
ItemKey(form, s) ==
  IF ~HasItemToken(s) THEN <<>>
  ELSE LET i == FirstItemToken(s)
           g == IF form = FORM_8K THEN ItemGroupAt8K(s, i) ELSE ItemGroupAt(s, i)
       IN  <<"I","T","E","M"," ">> \o StrUpper(g)

\* The assignments ITEM_MAP[key] = canon made by the loop over the catalog, in
\* order, each a pair <<key, canon>>.  The dict holds, for every key, the
\* label assigned last.
BuildItemMap(form, catalog) ==
  Flatten([i \in 1..Len(catalog) |->
             IF ItemKey(form, catalog[i]) = <<>> THEN <<>>
             ELSE << <<ItemKey(form, catalog[i]), catalog[i]>> >>])

\* RAW_CANON_SECTIONS of parsers/parser_10-k.py (lines 69-99), one character per element.
CANON_10K ==
  <<
     \* 1: Cover Page
     <<"C","o","v","e","r"," ","P","a","g","e">>,
     \* 2: Table of Contents
     <<"T","a","b","l","e"," ","o","f"," ","C","o","n","t","e","n","t","s">>,
     \* 3: Forward-Looking Statements
     <<"F","o","r","w","a","r","d","-","L","o","o","k","i","n","g"," ","S","t","a","t","e","m",
       "e","n","t","s">>,
     \* 4: Part I ~ Item 1. Business
     <<"P","a","r","t"," ","I"," ","ENDASH"," ","I","t","e","m"," ","1","."," ","B","u","s","i",
       "n","e","s","s">>,
     \* 5: Part I ~ Item 1A. Risk Factors
     <<"P","a","r","t"," ","I"," ","ENDASH"," ","I","t","e","m"," ","1","A","."," ","R","i","s",
       "k"," ","F","a","c","t","o","r","s">>,
     \* 6: Part I ~ Item 1B. Unresolved Staff Comments
     <<"P","a","r","t"," ","I"," ","ENDASH"," ","I","t","e","m"," ","1","B","."," ","U","n","r",
       "e","s","o","l","v","e","d"," ","S","t","a","f","f"," ","C","o","m","m","e","n","t","s">>,
     \* 7: Part I ~ Item 1C. Cybersecurity
     <<"P","a","r","t"," ","I"," ","ENDASH"," ","I","t","e","m"," ","1","C","."," ","C","y","b",
       "e","r","s","e","c","u","r","i","t","y">>,
     \* 8: Part I ~ Item 2. Properties
     <<"P","a","r","t"," ","I"," ","ENDASH"," ","I","t","e","m"," ","2","."," ","P","r","o","p",
       "e","r","t","i","e","s">>,
     \* 9: Part I ~ Item 3. Legal Proceedings
     <<"P","a","r","t"," ","I"," ","ENDASH"," ","I","t","e","m"," ","3","."," ","L","e","g","a",
       "l"," ","P","r","o","c","e","e","d","i","n","g","s">>,
     \* 10: Part I ~ Item 4. Mine Safety Disclosures
     <<"P","a","r","t"," ","I"," ","ENDASH"," ","I","t","e","m"," ","4","."," ","M","i","n","e",
       " ","S","a","f","e","t","y"," ","D","i","s","c","l","o","s","u","r","e","s">>,
     \* 11: Part II ~ Item 5. Market for Registrants Common Equity, Related Stockholder Matters & Issuer Purchases of Equity Securities
     <<"P","a","r","t"," ","I","I"," ","ENDASH"," ","I","t","e","m"," ","5","."," ","M","a","r",
       "k","e","t"," ","f","o","r"," ","R","e","g","i","s","t","r","a","n","t","s"," ","C","o",
       "m","m","o","n"," ","E","q","u","i","t","y",","," ","R","e","l","a","t","e","d"," ","S",
       "t","o","c","k","h","o","l","d","e","r"," ","M","a","t","t","e","r","s"," ","&"," ","I",
       "s","s","u","e","r"," ","P","u","r","c","h","a","s","e","s"," ","o","f"," ","E","q","u",
       "i","t","y"," ","S","e","c","u","r","i","t","i","e","s">>,
     \* 12: Part II ~ Item 6. [Reserved]
     <<"P","a","r","t"," ","I","I"," ","ENDASH"," ","I","t","e","m"," ","6","."," ","[","R","e",
       "s","e","r","v","e","d","]">>,
     \* 13: Part II ~ Item 7. Management's Discussion & Analysis (MD&A)
     <<"P","a","r","t"," ","I","I"," ","ENDASH"," ","I","t","e","m"," ","7","."," ","M","a","n",
       "a","g","e","m","e","n","t","'","s"," ","D","i","s","c","u","s","s","i","o","n"," ","&",
       " ","A","n","a","l","y","s","i","s"," ","(","M","D","&","A",")">>,
     \* 14: Part II ~ Item 7A. Quantitative & Qualitative Disclosures About Market Risk
     <<"P","a","r","t"," ","I","I"," ","ENDASH"," ","I","t","e","m"," ","7","A","."," ","Q","u",
       "a","n","t","i","t","a","t","i","v","e"," ","&"," ","Q","u","a","l","i","t","a","t","i",
       "v","e"," ","D","i","s","c","l","o","s","u","r","e","s"," ","A","b","o","u","t"," ","M",
       "a","r","k","e","t"," ","R","i","s","k">>,
     \* 15: Part II ~ Item 8. Financial Statements & Supplementary Data
     <<"P","a","r","t"," ","I","I"," ","ENDASH"," ","I","t","e","m"," ","8","."," ","F","i","n",
       "a","n","c","i","a","l"," ","S","t","a","t","e","m","e","n","t","s"," ","&"," ","S","u",
       "p","p","l","e","m","e","n","t","a","r","y"," ","D","a","t","a">>,
     \* 16: Part II ~ Item 9. Changes in & Disagreements With Accountants
     <<"P","a","r","t"," ","I","I"," ","ENDASH"," ","I","t","e","m"," ","9","."," ","C","h","a",
       "n","g","e","s"," ","i","n"," ","&"," ","D","i","s","a","g","r","e","e","m","e","n","t",
       "s"," ","W","i","t","h"," ","A","c","c","o","u","n","t","a","n","t","s">>,
     \* 17: Part II ~ Item 9A. Controls & Procedures
     <<"P","a","r","t"," ","I","I"," ","ENDASH"," ","I","t","e","m"," ","9","A","."," ","C","o",
       "n","t","r","o","l","s"," ","&"," ","P","r","o","c","e","d","u","r","e","s">>,
     \* 18: Part II ~ Item 9B. Other Information
     <<"P","a","r","t"," ","I","I"," ","ENDASH"," ","I","t","e","m"," ","9","B","."," ","O","t",
       "h","e","r"," ","I","n","f","o","r","m","a","t","i","o","n">>,
     \* 19: Part II ~ Item 9C. Foreign Jurisdiction Audit Inspection Disclosure
     <<"P","a","r","t"," ","I","I"," ","ENDASH"," ","I","t","e","m"," ","9","C","."," ","F","o",
       "r","e","i","g","n"," ","J","u","r","i","s","d","i","c","t","i","o","n"," ","A","u","d",
       "i","t"," ","I","n","s","p","e","c","t","i","o","n"," ","D","i","s","c","l","o","s","u",
       "r","e">>,
     \* 20: Part III ~ Item 10. Directors, Executive Officers & Corporate Governance
     <<"P","a","r","t"," ","I","I","I"," ","ENDASH"," ","I","t","e","m"," ","1","0","."," ","D",
       "i","r","e","c","t","o","r","s",","," ","E","x","e","c","u","t","i","v","e"," ","O","f",
       "f","i","c","e","r","s"," ","&"," ","C","o","r","p","o","r","a","t","e"," ","G","o","v",
       "e","r","n","a","n","c","e">>,
     \* 21: Part III ~ Item 11. Executive Compensation
     <<"P","a","r","t"," ","I","I","I"," ","ENDASH"," ","I","t","e","m"," ","1","1","."," ","E",
       "x","e","c","u","t","i","v","e"," ","C","o","m","p","e","n","s","a","t","i","o","n">>,
     \* 22: Part III ~ Item 12. Security Ownership of Certain Beneficial Owners & Management
     <<"P","a","r","t"," ","I","I","I"," ","ENDASH"," ","I","t","e","m"," ","1","2","."," ","S",
       "e","c","u","r","i","t","y"," ","O","w","n","e","r","s","h","i","p"," ","o","f"," ","C",
       "e","r","t","a","i","n"," ","B","e","n","e","f","i","c","i","a","l"," ","O","w","n","e",
       "r","s"," ","&"," ","M","a","n","a","g","e","m","e","n","t">>,
     \* 23: Part III ~ Item 13. Certain Relationships & Related Transactions
     <<"P","a","r","t"," ","I","I","I"," ","ENDASH"," ","I","t","e","m"," ","1","3","."," ","C",
       "e","r","t","a","i","n"," ","R","e","l","a","t","i","o","n","s","h","i","p","s"," ","&",
       " ","R","e","l","a","t","e","d"," ","T","r","a","n","s","a","c","t","i","o","n","s">>,
     \* 24: Part III ~ Item 14. Principal Accounting Fees & Services
     <<"P","a","r","t"," ","I","I","I"," ","ENDASH"," ","I","t","e","m"," ","1","4","."," ","P",
       "r","i","n","c","i","p","a","l"," ","A","c","c","o","u","n","t","i","n","g"," ","F","e",
       "e","s"," ","&"," ","S","e","r","v","i","c","e","s">>,
     \* 25: Part IV ~ Item 15. Exhibits & Financial-Statement Schedules
     <<"P","a","r","t"," ","I","V"," ","ENDASH"," ","I","t","e","m"," ","1","5","."," ","E","x",
       "h","i","b","i","t","s"," ","&"," ","F","i","n","a","n","c","i","a","l","-","S","t","a",
       "t","e","m","e","n","t"," ","S","c","h","e","d","u","l","e","s">>,
     \* 26: Part IV ~ Item 16. Form 10-K Summary
     <<"P","a","r","t"," ","I","V"," ","ENDASH"," ","I","t","e","m"," ","1","6","."," ","F","o",
       "r","m"," ","1","0","-","K"," ","S","u","m","m","a","r","y">>,
     \* 27: Certifications
     <<"C","e","r","t","i","f","i","c","a","t","i","o","n","s">>,
     \* 28: Signatures
     <<"S","i","g","n","a","t","u","r","e","s">>,
     \* 29: Exhibits Index
     <<"E","x","h","i","b","i","t","s"," ","I","n","d","e","x">>
  >>

\* RAW_CANON_SECTIONS of sft_parsers/parser_10-Q.py (lines 71-89), one character per element.
CANON_10Q ==
  <<
     \* 1: Cover Page
     <<"C","o","v","e","r"," ","P","a","g","e">>,
     \* 2: Table of Contents
     <<"T","a","b","l","e"," ","o","f"," ","C","o","n","t","e","n","t","s">>,
     \* 3: Forward-Looking Statements
     <<"F","o","r","w","a","r","d","-","L","o","o","k","i","n","g"," ","S","t","a","t","e","m",
       "e","n","t","s">>,
     \* 4: Part I ~ Item 1. Financial Statements
     <<"P","a","r","t"," ","I"," ","ENDASH"," ","I","t","e","m"," ","1","."," ","F","i","n","a",
       "n","c","i","a","l"," ","S","t","a","t","e","m","e","n","t","s">>,
     \* 5: Part I ~ Item 2. MD&A
     <<"P","a","r","t"," ","I"," ","ENDASH"," ","I","t","e","m"," ","2","."," ","M","D","&","A">>,
     \* 6: Part I ~ Item 3. Quantitative & Qualitative Disclosures About Market Risk
     <<"P","a","r","t"," ","I"," ","ENDASH"," ","I","t","e","m"," ","3","."," ","Q","u","a","n",
       "t","i","t","a","t","i","v","e"," ","&"," ","Q","u","a","l","i","t","a","t","i","v","e",
       " ","D","i","s","c","l","o","s","u","r","e","s"," ","A","b","o","u","t"," ","M","a","r",
       "k","e","t"," ","R","i","s","k">>,
     \* 7: Part I ~ Item 4. Controls & Procedures
     <<"P","a","r","t"," ","I"," ","ENDASH"," ","I","t","e","m"," ","4","."," ","C","o","n","t",
       "r","o","l","s"," ","&"," ","P","r","o","c","e","d","u","r","e","s">>,
     \* 8: Part II ~ Item 1. Legal Proceedings
     <<"P","a","r","t"," ","I","I"," ","ENDASH"," ","I","t","e","m"," ","1","."," ","L","e","g",
       "a","l"," ","P","r","o","c","e","e","d","i","n","g","s">>,
     \* 9: Part II ~ Item 1A. Risk Factors
     <<"P","a","r","t"," ","I","I"," ","ENDASH"," ","I","t","e","m"," ","1","A","."," ","R","i",
       "s","k"," ","F","a","c","t","o","r","s">>,
     \* 10: Part II ~ Item 2. Unregistered Sales of Equity Securities & Use of Proceeds
     <<"P","a","r","t"," ","I","I"," ","ENDASH"," ","I","t","e","m"," ","2","."," ","U","n","r",
       "e","g","i","s","t","e","r","e","d"," ","S","a","l","e","s"," ","o","f"," ","E","q","u",
       "i","t","y"," ","S","e","c","u","r","i","t","i","e","s"," ","&"," ","U","s","e"," ","o",
       "f"," ","P","r","o","c","e","e","d","s">>,
     \* 11: Part II ~ Item 3. Defaults upon Senior Securities
     <<"P","a","r","t"," ","I","I"," ","ENDASH"," ","I","t","e","m"," ","3","."," ","D","e","f",
       "a","u","l","t","s"," ","u","p","o","n"," ","S","e","n","i","o","r"," ","S","e","c","u",
       "r","i","t","i","e","s">>,
     \* 12: Part II ~ Item 4. Mine Safety Disclosures
     <<"P","a","r","t"," ","I","I"," ","ENDASH"," ","I","t","e","m"," ","4","."," ","M","i","n",
       "e"," ","S","a","f","e","t","y"," ","D","i","s","c","l","o","s","u","r","e","s">>,
     \* 13: Part II ~ Item 5. Other Information
     <<"P","a","r","t"," ","I","I"," ","ENDASH"," ","I","t","e","m"," ","5","."," ","O","t","h",
       "e","r"," ","I","n","f","o","r","m","a","t","i","o","n">>,
     \* 14: Part II ~ Item 6. Exhibits
     <<"P","a","r","t"," ","I","I"," ","ENDASH"," ","I","t","e","m"," ","6","."," ","E","x","h",
       "i","b","i","t","s">>,
     \* 15: Certifications
     <<"C","e","r","t","i","f","i","c","a","t","i","o","n","s">>,
     \* 16: Signatures
     <<"S","i","g","n","a","t","u","r","e","s">>,
     \* 17: Exhibits Index
     <<"E","x","h","i","b","i","t","s"," ","I","n","d","e","x">>
  >>

\* RAW_CANON_SECTIONS of parsers/parser_DEF 14A.py (lines 68-96), one character per element.
CANON_DEF14A ==
  <<
     \* 1: Cover Page
     <<"C","o","v","e","r"," ","P","a","g","e">>,
     \* 2: Item 1. Date, Time & Place Information
     <<"I","t","e","m"," ","1","."," ","D","a","t","e",","," ","T","i","m","e"," ","&"," ","P",
       "l","a","c","e"," ","I","n","f","o","r","m","a","t","i","o","n">>,
     \* 3: Item 2. Revocability of Proxy
     <<"I","t","e","m"," ","2","."," ","R","e","v","o","c","a","b","i","l","i","t","y"," ","o",
       "f"," ","P","r","o","x","y">>,
     \* 4: Item 3. Dissenters~ Right of Appraisal
     <<"I","t","e","m"," ","3","."," ","D","i","s","s","e","n","t","e","r","s","RSQUO"," ","R",
       "i","g","h","t"," ","o","f"," ","A","p","p","r","a","i","s","a","l">>,
     \* 5: Item 4. Persons Making the Solicitation
     <<"I","t","e","m"," ","4","."," ","P","e","r","s","o","n","s"," ","M","a","k","i","n","g",
       " ","t","h","e"," ","S","o","l","i","c","i","t","a","t","i","o","n">>,
     \* 6: Item 5. Interest of Certain Persons in Matters to Be Acted Upon
     <<"I","t","e","m"," ","5","."," ","I","n","t","e","r","e","s","t"," ","o","f"," ","C","e",
       "r","t","a","i","n"," ","P","e","r","s","o","n","s"," ","i","n"," ","M","a","t","t","e",
       "r","s"," ","t","o"," ","B","e"," ","A","c","t","e","d"," ","U","p","o","n">>,
     \* 7: Item 6. Voting Securities & Principal Holders
     <<"I","t","e","m"," ","6","."," ","V","o","t","i","n","g"," ","S","e","c","u","r","i","t",
       "i","e","s"," ","&"," ","P","r","i","n","c","i","p","a","l"," ","H","o","l","d","e","r","s">>,
     \* 8: Item 7. Directors & Executive Officers
     <<"I","t","e","m"," ","7","."," ","D","i","r","e","c","t","o","r","s"," ","&"," ","E","x",
       "e","c","u","t","i","v","e"," ","O","f","f","i","c","e","r","s">>,
     \* 9: Item 8. Compensation of Directors & Executive Officers
     <<"I","t","e","m"," ","8","."," ","C","o","m","p","e","n","s","a","t","i","o","n"," ","o",
       "f"," ","D","i","r","e","c","t","o","r","s"," ","&"," ","E","x","e","c","u","t","i","v",
       "e"," ","O","f","f","i","c","e","r","s">>,
     \* 10: Compensation Discussion and Analysis (CD&A)
     <<"C","o","m","p","e","n","s","a","t","i","o","n"," ","D","i","s","c","u","s","s","i","o",
       "n"," ","a","n","d"," ","A","n","a","l","y","s","i","s"," ","(","C","D","&","A",")">>,
     \* 11: Pay Ratio Disclosure
     <<"P","a","y"," ","R","a","t","i","o"," ","D","i","s","c","l","o","s","u","r","e">>,
     \* 12: Item 9. Independent Public Accountants
     <<"I","t","e","m"," ","9","."," ","I","n","d","e","p","e","n","d","e","n","t"," ","P","u",
       "b","l","i","c"," ","A","c","c","o","u","n","t","a","n","t","s">>,
     \* 13: Item 10. Compensation Plans & Arrangements
     <<"I","t","e","m"," ","1","0","."," ","C","o","m","p","e","n","s","a","t","i","o","n"," ",
       "P","l","a","n","s"," ","&"," ","A","r","r","a","n","g","e","m","e","n","t","s">>,
     \* 14: Item 11. Authorization or Issuance of Securities Other Than for Exchange
     <<"I","t","e","m"," ","1","1","."," ","A","u","t","h","o","r","i","z","a","t","i","o","n",
       " ","o","r"," ","I","s","s","u","a","n","c","e"," ","o","f"," ","S","e","c","u","r","i",
       "t","i","e","s"," ","O","t","h","e","r"," ","T","h","a","n"," ","f","o","r"," ","E","x",
       "c","h","a","n","g","e">>,
     \* 15: Item 12. Modification or Exchange of Securities
     <<"I","t","e","m"," ","1","2","."," ","M","o","d","i","f","i","c","a","t","i","o","n"," ",
       "o","r"," ","E","x","c","h","a","n","g","e"," ","o","f"," ","S","e","c","u","r","i","t",
       "i","e","s">>,
     \* 16: Item 13. Financial & Other Information (Merger/Acquisition Context)
     <<"I","t","e","m"," ","1","3","."," ","F","i","n","a","n","c","i","a","l"," ","&"," ","O",
       "t","h","e","r"," ","I","n","f","o","r","m","a","t","i","o","n"," ","(","M","e","r","g",
       "e","r","/","A","c","q","u","i","s","i","t","i","o","n"," ","C","o","n","t","e","x","t",")">>,
     \* 17: Item 14. Mergers, Consolidations, Acquisitions & Similar Matters
     <<"I","t","e","m"," ","1","4","."," ","M","e","r","g","e","r","s",","," ","C","o","n","s",
       "o","l","i","d","a","t","i","o","n","s",","," ","A","c","q","u","i","s","i","t","i","o",
       "n","s"," ","&"," ","S","i","m","i","l","a","r"," ","M","a","t","t","e","r","s">>,
     \* 18: Item 15. Acquisition or Disposition of Property
     <<"I","t","e","m"," ","1","5","."," ","A","c","q","u","i","s","i","t","i","o","n"," ","o",
       "r"," ","D","i","s","p","o","s","i","t","i","o","n"," ","o","f"," ","P","r","o","p","e",
       "r","t","y">>,
     \* 19: Item 16. Restatement of Accounts
     <<"I","t","e","m"," ","1","6","."," ","R","e","s","t","a","t","e","m","e","n","t"," ","o",
       "f"," ","A","c","c","o","u","n","t","s">>,
     \* 20: Item 17. Action with Respect to Reports
     <<"I","t","e","m"," ","1","7","."," ","A","c","t","i","o","n"," ","w","i","t","h"," ","R",
       "e","s","p","e","c","t"," ","t","o"," ","R","e","p","o","r","t","s">>,
     \* 21: Item 18. Matters Not Required to Be Submitted
     <<"I","t","e","m"," ","1","8","."," ","M","a","t","t","e","r","s"," ","N","o","t"," ","R",
       "e","q","u","i","r","e","d"," ","t","o"," ","B","e"," ","S","u","b","m","i","t","t","e","d">>,
     \* 22: Item 19. Amendment of Charter, By-laws or Other Documents
     <<"I","t","e","m"," ","1","9","."," ","A","m","e","n","d","m","e","n","t"," ","o","f"," ",
       "C","h","a","r","t","e","r",","," ","B","y","-","l","a","w","s"," ","o","r"," ","O","t",
       "h","e","r"," ","D","o","c","u","m","e","n","t","s">>,
     \* 23: Item 20. Other Proposed Action
     <<"I","t","e","m"," ","2","0","."," ","O","t","h","e","r"," ","P","r","o","p","o","s","e",
       "d"," ","A","c","t","i","o","n">>,
     \* 24: Item 21. Voting Procedures
     <<"I","t","e","m"," ","2","1","."," ","V","o","t","i","n","g"," ","P","r","o","c","e","d",
       "u","r","e","s">>,
     \* 25: Item 22. Information Required in Investment-Company Proxy Statements
     <<"I","t","e","m"," ","2","2","."," ","I","n","f","o","r","m","a","t","i","o","n"," ","R",
       "e","q","u","i","r","e","d"," ","i","n"," ","I","n","v","e","s","t","m","e","n","t","-",
       "C","o","m","p","a","n","y"," ","P","r","o","x","y"," ","S","t","a","t","e","m","e","n",
       "t","s">>,
     \* 26: Signatures
     <<"S","i","g","n","a","t","u","r","e","s">>,
     \* 27: Exhibits Index
     <<"E","x","h","i","b","i","t","s"," ","I","n","d","e","x">>
  >>

\* RAW_CANON_SECTIONS of sft_parsers/parser_8_K.py (lines 66-114), one character per element.
CANON_8K ==
  <<
     \* 1: Cover Page
     <<"C","o","v","e","r"," ","P","a","g","e">>,
     \* 2: Filing Date
     <<"F","i","l","i","n","g"," ","D","a","t","e">>,
     \* 3: Event Date
     <<"E","v","e","n","t"," ","D","a","t","e">>,
     \* 4: Section 1 ~ 1.01 Entry into a Material Definitive Agreement
     <<"S","e","c","t","i","o","n"," ","1"," ","ENDASH"," ","1",".","0","1"," ","E","n","t","r",
       "y"," ","i","n","t","o"," ","a"," ","M","a","t","e","r","i","a","l"," ","D","e","f","i",
       "n","i","t","i","v","e"," ","A","g","r","e","e","m","e","n","t">>,
     \* 5: Section 1 ~ 1.02 Termination of a Material Definitive Agreement
     <<"S","e","c","t","i","o","n"," ","1"," ","ENDASH"," ","1",".","0","2"," ","T","e","r","m",
       "i","n","a","t","i","o","n"," ","o","f"," ","a"," ","M","a","t","e","r","i","a","l"," ",
       "D","e","f","i","n","i","t","i","v","e"," ","A","g","r","e","e","m","e","n","t">>,
     \* 6: Section 1 ~ 1.03 Bankruptcy or Receivership
     <<"S","e","c","t","i","o","n"," ","1"," ","ENDASH"," ","1",".","0","3"," ","B","a","n","k",
       "r","u","p","t","c","y"," ","o","r"," ","R","e","c","e","i","v","e","r","s","h","i","p">>,
     \* 7: Section 1 ~ 1.04 Mine Safety ~ Shutdowns & Patterns of Violations
     <<"S","e","c","t","i","o","n"," ","1"," ","ENDASH"," ","1",".","0","4"," ","M","i","n","e",
       " ","S","a","f","e","t","y"," ","EMDASH"," ","S","h","u","t","d","o","w","n","s"," ","&",
       " ","P","a","t","t","e","r","n","s"," ","o","f"," ","V","i","o","l","a","t","i","o","n","s">>,
     \* 8: Section 1 ~ 1.05 Material Cybersecurity Incidents
     <<"S","e","c","t","i","o","n"," ","1"," ","ENDASH"," ","1",".","0","5"," ","M","a","t","e",
       "r","i","a","l"," ","C","y","b","e","r","s","e","c","u","r","i","t","y"," ","I","n","c",
       "i","d","e","n","t","s">>,
     \* 9: Section 2 ~ 2.01 Completion of Acquisition or Disposition of Assets
     <<"S","e","c","t","i","o","n"," ","2"," ","ENDASH"," ","2",".","0","1"," ","C","o","m","p",
       "l","e","t","i","o","n"," ","o","f"," ","A","c","q","u","i","s","i","t","i","o","n"," ",
       "o","r"," ","D","i","s","p","o","s","i","t","i","o","n"," ","o","f"," ","A","s","s","e",
       "t","s">>,
     \* 10: Section 2 ~ 2.02 Results of Operations & Financial Condition
     <<"S","e","c","t","i","o","n"," ","2"," ","ENDASH"," ","2",".","0","2"," ","R","e","s","u",
       "l","t","s"," ","o","f"," ","O","p","e","r","a","t","i","o","n","s"," ","&"," ","F","i",
       "n","a","n","c","i","a","l"," ","C","o","n","d","i","t","i","o","n">>,
     \* 11: Section 2 ~ 2.03 Creation of a Direct Financial Obligation or Off-Balance Sheet Obligation
     <<"S","e","c","t","i","o","n"," ","2"," ","ENDASH"," ","2",".","0","3"," ","C","r","e","a",
       "t","i","o","n"," ","o","f"," ","a"," ","D","i","r","e","c","t"," ","F","i","n","a","n",
       "c","i","a","l"," ","O","b","l","i","g","a","t","i","o","n"," ","o","r"," ","O","f","f",
       "-","B","a","l","a","n","c","e"," ","S","h","e","e","t"," ","O","b","l","i","g","a","t",
       "i","o","n">>,
     \* 12: Section 2 ~ 2.04 Triggering Events That Accelerate or Increase a Direct Financial Obligation
     <<"S","e","c","t","i","o","n"," ","2"," ","ENDASH"," ","2",".","0","4"," ","T","r","i","g",
       "g","e","r","i","n","g"," ","E","v","e","n","t","s"," ","T","h","a","t"," ","A","c","c",
       "e","l","e","r","a","t","e"," ","o","r"," ","I","n","c","r","e","a","s","e"," ","a"," ",
       "D","i","r","e","c","t"," ","F","i","n","a","n","c","i","a","l"," ","O","b","l","i","g",
       "a","t","i","o","n">>,
     \* 13: Section 2 ~ 2.05 Costs Associated with Exit or Disposal Activities
     <<"S","e","c","t","i","o","n"," ","2"," ","ENDASH"," ","2",".","0","5"," ","C","o","s","t",
       "s"," ","A","s","s","o","c","i","a","t","e","d"," ","w","i","t","h"," ","E","x","i","t",
       " ","o","r"," ","D","i","s","p","o","s","a","l"," ","A","c","t","i","v","i","t","i","e","s">>,
     \* 14: Section 2 ~ 2.06 Material Impairments
     <<"S","e","c","t","i","o","n"," ","2"," ","ENDASH"," ","2",".","0","6"," ","M","a","t","e",
       "r","i","a","l"," ","I","m","p","a","i","r","m","e","n","t","s">>,
     \* 15: Section 3 ~ 3.01 Notice of Delisting or Transfer of Listing
     <<"S","e","c","t","i","o","n"," ","3"," ","ENDASH"," ","3",".","0","1"," ","N","o","t","i",
       "c","e"," ","o","f"," ","D","e","l","i","s","t","i","n","g"," ","o","r"," ","T","r","a",
       "n","s","f","e","r"," ","o","f"," ","L","i","s","t","i","n","g">>,
     \* 16: Section 3 ~ 3.02 Unregistered Sales of Equity Securities
     <<"S","e","c","t","i","o","n"," ","3"," ","ENDASH"," ","3",".","0","2"," ","U","n","r","e",
       "g","i","s","t","e","r","e","d"," ","S","a","l","e","s"," ","o","f"," ","E","q","u","i",
       "t","y"," ","S","e","c","u","r","i","t","i","e","s">>,
     \* 17: Section 3 ~ 3.03 Material Modification to Rights of Security Holders
     <<"S","e","c","t","i","o","n"," ","3"," ","ENDASH"," ","3",".","0","3"," ","M","a","t","e",
       "r","i","a","l"," ","M","o","d","i","f","i","c","a","t","i","o","n"," ","t","o"," ","R",
       "i","g","h","t","s"," ","o","f"," ","S","e","c","u","r","i","t","y"," ","H","o","l","d",
       "e","r","s">>,
     \* 18: Section 4 ~ 4.01 Changes in Registrant~s Certifying Accountant
     <<"S","e","c","t","i","o","n"," ","4"," ","ENDASH"," ","4",".","0","1"," ","C","h","a","n",
       "g","e","s"," ","i","n"," ","R","e","g","i","s","t","r","a","n","t","RSQUO","s"," ","C",
       "e","r","t","i","f","y","i","n","g"," ","A","c","c","o","u","n","t","a","n","t">>,
     \* 19: Section 4 ~ 4.02 Non-Reliance on Previously Issued Financial Statements
     <<"S","e","c","t","i","o","n"," ","4"," ","ENDASH"," ","4",".","0","2"," ","N","o","n","-",
       "R","e","l","i","a","n","c","e"," ","o","n"," ","P","r","e","v","i","o","u","s","l","y",
       " ","I","s","s","u","e","d"," ","F","i","n","a","n","c","i","a","l"," ","S","t","a","t",
       "e","m","e","n","t","s">>,
     \* 20: Section 5 ~ 5.01 Changes in Control of Registrant
     <<"S","e","c","t","i","o","n"," ","5"," ","ENDASH"," ","5",".","0","1"," ","C","h","a","n",
       "g","e","s"," ","i","n"," ","C","o","n","t","r","o","l"," ","o","f"," ","R","e","g","i",
       "s","t","r","a","n","t">>,
     \* 21: Section 5 ~ 5.02 Director/Officer Changes & Compensation Arrangements
     <<"S","e","c","t","i","o","n"," ","5"," ","ENDASH"," ","5",".","0","2"," ","D","i","r","e",
       "c","t","o","r","/","O","f","f","i","c","e","r"," ","C","h","a","n","g","e","s"," ","&",
       " ","C","o","m","p","e","n","s","a","t","i","o","n"," ","A","r","r","a","n","g","e","m",
       "e","n","t","s">>,
     \* 22: Section 5 ~ 5.03 Charter/By-Law Amendments; Fiscal Year Change
     <<"S","e","c","t","i","o","n"," ","5"," ","ENDASH"," ","5",".","0","3"," ","C","h","a","r",
       "t","e","r","/","B","y","-","L","a","w"," ","A","m","e","n","d","m","e","n","t","s",";",
       " ","F","i","s","c","a","l"," ","Y","e","a","r"," ","C","h","a","n","g","e">>,
     \* 23: Section 5 ~ 5.04 Trading-Plan Suspension
     <<"S","e","c","t","i","o","n"," ","5"," ","ENDASH"," ","5",".","0","4"," ","T","r","a","d",
       "i","n","g","-","P","l","a","n"," ","S","u","s","p","e","n","s","i","o","n">>,
     \* 24: Section 5 ~ 5.05 Code of Ethics Amendment or Waiver
     <<"S","e","c","t","i","o","n"," ","5"," ","ENDASH"," ","5",".","0","5"," ","C","o","d","e",
       " ","o","f"," ","E","t","h","i","c","s"," ","A","m","e","n","d","m","e","n","t"," ","o",
       "r"," ","W","a","i","v","e","r">>,
     \* 25: Section 5 ~ 5.06 Change in Shell Company Status
     <<"S","e","c","t","i","o","n"," ","5"," ","ENDASH"," ","5",".","0","6"," ","C","h","a","n",
       "g","e"," ","i","n"," ","S","h","e","l","l"," ","C","o","m","p","a","n","y"," ","S","t",
       "a","t","u","s">>,
     \* 26: Section 5 ~ 5.07 Submission of Matters to a Vote of Security Holders
     <<"S","e","c","t","i","o","n"," ","5"," ","ENDASH"," ","5",".","0","7"," ","S","u","b","m",
       "i","s","s","i","o","n"," ","o","f"," ","M","a","t","t","e","r","s"," ","t","o"," ","a",
       " ","V","o","t","e"," ","o","f"," ","S","e","c","u","r","i","t","y"," ","H","o","l","d",
       "e","r","s">>,
     \* 27: Section 5 ~ 5.08 Shareholder Director Nominations
     <<"S","e","c","t","i","o","n"," ","5"," ","ENDASH"," ","5",".","0","8"," ","S","h","a","r",
       "e","h","o","l","d","e","r"," ","D","i","r","e","c","t","o","r"," ","N","o","m","i","n",
       "a","t","i","o","n","s">>,
     \* 28: Section 6 ~ 6.01 ABS Informational & Computational Material
     <<"S","e","c","t","i","o","n"," ","6"," ","ENDASH"," ","6",".","0","1"," ","A","B","S"," ",
       "I","n","f","o","r","m","a","t","i","o","n","a","l"," ","&"," ","C","o","m","p","u","t",
       "a","t","i","o","n","a","l"," ","M","a","t","e","r","i","a","l">>,
     \* 29: Section 6 ~ 6.02 Change of Servicer or Trustee
     <<"S","e","c","t","i","o","n"," ","6"," ","ENDASH"," ","6",".","0","2"," ","C","h","a","n",
       "g","e"," ","o","f"," ","S","e","r","v","i","c","e","r"," ","o","r"," ","T","r","u","s",
       "t","e","e">>,
     \* 30: Section 6 ~ 6.03 Change in Credit Enhancement or Other External Support
     <<"S","e","c","t","i","o","n"," ","6"," ","ENDASH"," ","6",".","0","3"," ","C","h","a","n",
       "g","e"," ","i","n"," ","C","r","e","d","i","t"," ","E","n","h","a","n","c","e","m","e",
       "n","t"," ","o","r"," ","O","t","h","e","r"," ","E","x","t","e","r","n","a","l"," ","S",
       "u","p","p","o","r","t">>,
     \* 31: Section 6 ~ 6.04 Failure to Make a Required Distribution
     <<"S","e","c","t","i","o","n"," ","6"," ","ENDASH"," ","6",".","0","4"," ","F","a","i","l",
       "u","r","e"," ","t","o"," ","M","a","k","e"," ","a"," ","R","e","q","u","i","r","e","d",
       " ","D","i","s","t","r","i","b","u","t","i","o","n">>,
     \* 32: Section 6 ~ 6.05 Securities Act Updating Disclosure
     <<"S","e","c","t","i","o","n"," ","6"," ","ENDASH"," ","6",".","0","5"," ","S","e","c","u",
       "r","i","t","i","e","s"," ","A","c","t"," ","U","p","d","a","t","i","n","g"," ","D","i",
       "s","c","l","o","s","u","r","e">>,
     \* 33: Section 7 ~ 7.01 Regulation FD Disclosure
     <<"S","e","c","t","i","o","n"," ","7"," ","ENDASH"," ","7",".","0","1"," ","R","e","g","u",
       "l","a","t","i","o","n"," ","F","D"," ","D","i","s","c","l","o","s","u","r","e">>,
     \* 34: Section 8 ~ 8.01 Other Events
     <<"S","e","c","t","i","o","n"," ","8"," ","ENDASH"," ","8",".","0","1"," ","O","t","h","e",
       "r"," ","E","v","e","n","t","s">>,
     \* 35: Section 9 ~ 9.01 Financial Statements & Exhibits
     <<"S","e","c","t","i","o","n"," ","9"," ","ENDASH"," ","9",".","0","1"," ","F","i","n","a",
       "n","c","i","a","l"," ","S","t","a","t","e","m","e","n","t","s"," ","&"," ","E","x","h",
       "i","b","i","t","s">>,
     \* 36: Exhibits Index
     <<"E","x","h","i","b","i","t","s"," ","I","n","d","e","x">>
  >>

RAW_CANON_SECTIONS(form) ==
  CASE form = FORM_10K    -> CANON_10K
    [] form = FORM_10Q    -> CANON_10Q
    [] form = FORM_DEF14A -> CANON_DEF14A
    [] form = FORM_8K     -> CANON_8K

ITEM_MAP_10K == BuildItemMap(FORM_10K, CANON_10K)

ITEM_MAP_10Q == BuildItemMap(FORM_10Q, CANON_10Q)

ITEM_MAP_DEF14A == BuildItemMap(FORM_DEF14A, CANON_DEF14A)

ITEM_MAP_8K == BuildItemMap(FORM_8K, CANON_8K)

ITEM_MAP(form) ==
  CASE form = FORM_10K    -> ITEM_MAP_10K
    [] form = FORM_10Q    -> ITEM_MAP_10Q
    [] form = FORM_DEF14A -> ITEM_MAP_DEF14A
    [] form = FORM_8K     -> ITEM_MAP_8K

\* Python's None where a label is expected
None == <<"<None>">>

\* the keys of the dict
ItemMapKeys(form) == {ITEM_MAP(form)[i][1] : i \in 1..Len(ITEM_MAP(form))}

\* ITEM_MAP.get(key)
ItemMapGet(form, key) ==
  LET assigned == ITEM_MAP(form)
      hits     == {i \in 1..Len(assigned) : assigned[i][1] = key}
  IN  IF hits = {} THEN None
      ELSE assigned[CHOOSE i \in hits : \A j \in hits : j <= i][2]

\* ------------------------------------------------------------------------
\* Section / heading classifier
\* ------------------------------------------------------------------------

\* .replace(ENDASH, "-").replace(EMDASH, "-")  /  .translate(DASH_FIX)
DashFix(s) ==
  Flatten([i \in 1..Len(s) |-> IF s[i] \in {"ENDASH", "EMDASH"} THEN <<"-">> ELSE <<s[i]>>])

\* canon.lower() with its dashes fixed, for every label of a catalog
CanonPhrases(catalog) == Flatten([i \in 1..Len(catalog) |-> <<DashFix(StrLower(catalog[i]))>>])

PHRASES_10K == CanonPhrases(CANON_10K)

PHRASES_10Q == CanonPhrases(CANON_10Q)

PHRASES_DEF14A == CanonPhrases(CANON_DEF14A)

PHRASES_8K == CanonPhrases(CANON_8K)

PHRASES(form) ==
  CASE form = FORM_10K    -> PHRASES_10K
    [] form = FORM_10Q    -> PHRASES_10Q
    [] form = FORM_DEF14A -> PHRASES_DEF14A
    [] form = FORM_8K     -> PHRASES_8K

\* a phrase search that keeps the last hit of the catalog instead of the first
LastPhraseMatch(form, lowered) ==
  LET catalog == RAW_CANON_SECTIONS(form)
      phrases == PHRASES(form)
      hits    == {i \in 1..Len(catalog) : Contains(lowered, phrases[i])}
  IN  IF hits = {} THEN None
      ELSE catalog[CHOOSE i \in hits : \A j \in hits : i >= j]

\* the loop over the catalog: the first label whose phrase is in lowered
FirstPhraseMatch(form, lowered) ==
  LET catalog == RAW_CANON_SECTIONS(form)
      phrases == PHRASES(form)
      hits    == {i \in 1..Len(catalog) : Contains(lowered, phrases[i])}
  IN  IF hits = {} THEN None
      ELSE catalog[CHOOSE i \in hits : \A j \in hits : i <= j]

\* a matcher that tries the phrases before the item-id map
match_section_phrase_first(form, text) ==
  LET cleaned == CleanText(form, text)
      byPhrase == FirstPhraseMatch(form, DashFix(StrLower(cleaned)))
  IN  IF byPhrase # None THEN byPhrase
      ELSE IF HasItemToken(cleaned) THEN ItemMapGet(form, ItemKey(form, cleaned))
      ELSE None

\* match_section (10-K, 10-Q, 8-K) and canonical_from_heading (DEF 14A, which
\* dash-fixes the cleaned text before the item search: no item token is
\* affected, since the pattern holds no dash)
match_section(form, text) ==
  LET cleaned == IF form = FORM_DEF14A
                 THEN DashFix(CleanText(form, text))
                 ELSE CleanText(form, text)
  IN  IF HasItemToken(cleaned)
      THEN ItemMapGet(form, ItemKey(form, cleaned))
      ELSE FirstPhraseMatch(form, DashFix(StrLower(cleaned)))

\* ------------------------------------------------------------------------
\* Chunking stage of parse_10k_file (the same loop in every parser)
\* ------------------------------------------------------------------------

TOKEN_LIMIT == 512

\* int(TOKEN_LIMIT * 0.12)
TOKEN_OVERLAP == (TOKEN_LIMIT * 12) \div 100

Min(a, b) == IF a <= b THEN a ELSE b

\* link_map.get(accession, "")
LinkGet(links, acc) == IF acc \in DOMAIN links THEN links[acc] ELSE ""

\* the dict build_meta returns (ticker, filing_date and tags are not modelled)
build_meta_wrong_count(name, start, end, acc, links) ==
  [section |-> name, start_token |-> start, end_token |-> end,
   token_count |-> end, accession |-> acc, source_url |-> LinkGet(links, acc)]

build_meta(name, start, end, acc, links) ==
  [section |-> name, start_token |-> start, end_token |-> end,
   token_count |-> end - start, accession |-> acc,
   source_url |-> LinkGet(links, acc)]

\* end = min(start + TOKEN_LIMIT, tokens)
WindowEndUnclamped(start, total) == start + TOKEN_LIMIT

WindowEnd(start, total) == Min(start + TOKEN_LIMIT, total)

\* the next window started at the end of the last, without overlap
NextStartNoOverlap(end) == end

\* start = end - TOKEN_OVERLAP
NextStartRounded(end) == end - (TOKEN_LIMIT * 12 + 99) \div 100

NextStart(end) == end - TOKEN_OVERLAP

\* the while loop entered with the given start: the <<start, end>> pairs it
\* passes to build_meta, in order
RECURSIVE Windows(_, _)
Windows(start, total) ==
  IF ~(start < total) THEN <<>>
  ELSE LET end == WindowEnd(start, total)
       IN  IF end = total THEN << <<start, end>> >>
           ELSE << <<start, end>> >> \o Windows(NextStart(end), total)

\* if tokens <= TOKEN_LIMIT
AlwaysWindowed(total) == FALSE

FitsOneChunk(total) == total <= TOKEN_LIMIT

\* the <<start, end>> pairs of the chunks of a non-missing section
ChunkRanges(total) ==
  IF FitsOneChunk(total) THEN << <<0, total>> >> ELSE Windows(0, total)

\* sec["chunks"] after the chunk stage handled a non-missing section
SectionChunks(name, total, acc, links) ==
  LET ranges == ChunkRanges(total)
  IN  [k \in 1..Len(ranges) |->
         build_meta(name, ranges[k][1], ranges[k][2], acc, links)]

\* missing_sources after the stage: build_meta adds the accession whenever it
\* is called and finds no URL
MissesAfter(misses, total, acc, links) ==
  IF Len(ChunkRanges(total)) > 0 /\ LinkGet(links, acc) = ""
  THEN misses \cup {acc} ELSE misses

\* ------------------------------------------------------------------------
\* The parsed HTML document and the helpers of the walker (parser_10-k.py)
\* ------------------------------------------------------------------------

\* An element of list(body.descendants), in document order: a Tag (with the
\* number of its own descendants, which follow it in the list, and whether
\* its style attribute holds "bold" or "font-weight:700") or a
\* NavigableString.
TagNode(name, bold, size) ==
  [tag |-> TRUE, name |-> name, bold |-> bold, str |-> <<>>, size |-> size]

StrNode(s) ==
  [tag |-> FALSE, name |-> "", bold |-> FALSE, str |-> s, size |-> 0]

\* sep.join(parts)
Join(sep, parts) ==
  Flatten([k \in 1..Len(parts) |-> IF k = 1 THEN parts[k] ELSE sep \o parts[k]])

\* node.get_text(" ", strip=True) of the node at index i (1-based): the
\* stripped, non-empty strings below it, joined by one space
GetText(ns, i) ==
  IF ~ns[i].tag THEN Strip(ns[i].str)
  ELSE Join(<<" ">>,
            Flatten([j \in 1..ns[i].size |->
                       IF ~ns[i + j].tag /\ Strip(ns[i + j].str) # <<>>
                       THEN << Strip(ns[i + j].str) >> ELSE <<>>]))

\* str.split(): the maximal runs of non-whitespace characters, in order
Split(s) ==
  Flatten([i \in 1..Len(s) |->
             IF ~IsSpace(s[i]) /\ (i = 1 \/ IsSpace(s[i - 1]))
             THEN << SubSeq(s, i, CHOOSE j \in i..Len(s) :
                                    /\ \A m \in i..j : ~IsSpace(s[m])
                                    /\ (j = Len(s) \/ IsSpace(s[j + 1]))) >>
             ELSE <<>>])

\* len(txt.split())
token_count(s) ==
  Cardinality({i \in 1..Len(s) : ~IsSpace(s[i]) /\ (i = 1 \/ IsSpace(s[i - 1]))})

\* str.isupper(): some cased character, and no lower-case one
IsUpperStr(s) ==
  /\ \E i \in 1..Len(s) : IsUpperChar(s[i])
  /\ \A i \in 1..Len(s) : ~IsLowerChar(s[i])

\* detect_subheading(node), for the Tag at index i
detect_subheading(ns, i) ==
  LET t == clean_text(GetText(ns, i))
  IN  \/ ns[i].name \in {"b", "strong"}
      \/ ns[i].bold
      \/ (IsUpperStr(t) /\ 1 < token_count(t) /\ token_count(t) <= 12)

\* the indices, in order, of the Tags below node i whose name is in names
FindAll(ns, i, names) ==
  Flatten([j \in 1..ns[i].size |->
             IF ns[i + j].tag /\ ns[i + j].name \in names THEN <<i + j>> ELSE <<>>])

\* table_to_dict(tbl, pre, post), for the table Tag at index i; the code
\* raises IndexError when the table has header cells but no row
table_to_dict(ns, i, pre, post) ==
  LET trs  == FindAll(ns, i, {"tr"})
      rows == [r \in 1..Len(trs) |->
                 LET cells == FindAll(ns, trs[r], {"th", "td"})
                 IN  [c \in 1..Len(cells) |-> clean_text(GetText(ns, cells[c]))]]
  IN  [headers |-> IF FindAll(ns, i, {"th"}) # <<>> THEN rows[1] ELSE <<>>,
       data |-> rows, pre_context |-> pre, post_context |-> post]

\* "|" + "|".join(cells) + "|\n"
MdRow(cells) == <<"|">> \o Join(<<"|">>, cells) \o <<"|", "NL">>

\* dict_to_markdown(tbl); the code raises IndexError when headers and data
\* are both empty
dict_to_markdown(tbl) ==
  LET hdrs == IF tbl.headers # <<>> THEN tbl.headers
              ELSE [c \in 1..Len(tbl.data[1]) |-> <<>>]
  IN  Strip(MdRow(hdrs)
            \o MdRow([c \in 1..Len(hdrs) |-> <<"-", "-", "-">>])
            \o Flatten([r \in 1..(Len(tbl.data) - 1) |-> MdRow(tbl.data[r + 1])]))

\* the table at index i makes table_to_dict or dict_to_markdown raise: it
\* has no row
TableRaisesAt(ns, i) == FindAll(ns, i, {"tr"}) = <<>>

\* the initial entry of `sections` for one label
EmptySection ==
  [html_blocks |-> <<>>, subsections |-> <<>>, tables |-> <<>>,
   chunks |-> <<>>, missing |-> TRUE]

\* the labels of a catalog
Labels(catalog) == {catalog[k] : k \in 1..Len(catalog)}

\* sec["subsections"][sub].append(txt) on a defaultdict(list) kept as the
\* sequence of its <<title, blocks>> items in insertion order
SubAppend(subs, sub, block) ==
  IF \E k \in 1..Len(subs) : subs[k][1] = sub
  THEN [k \in 1..Len(subs) |->
          IF subs[k][1] = sub THEN <<sub, Append(subs[k][2], block)>> ELSE subs[k]]
  ELSE Append(subs, <<sub, <<block>> >>)

\* the join with the subsection blocks placed before the section's own
PlainTextSubsectionsFirst(sec) ==
  Join(<<"NL">>,
       Flatten([k \in 1..Len(sec.subsections) |-> sec.subsections[k][2]]) \o sec.html_blocks)

\* "\n".join(sec["html_blocks"] + list(chain.from_iterable(subsections.values())))
PlainText(sec) ==
  Join(<<"NL">>,
       sec.html_blocks \o Flatten([k \in 1..Len(sec.subsections) |-> sec.subsections[k][2]]))

\* the chunks the chunk stage appends for a section, each {"text", "meta"}
ChunksOf(lab, sec, acc, links) ==
  LET plain == PlainText(sec)
      total == token_count(plain)
      metas == SectionChunks(lab, total, acc, links)
      words == Split(plain)
  IN  [k \in 1..Len(metas) |->
         [text |-> IF FitsOneChunk(total) THEN plain
                   ELSE Join(<<" ">>, SubSeq(words, metas[k].start_token + 1,
                                             metas[k].end_token)),
          meta |-> metas[k]]]

\* the chunk stage without its test of the missing flag
StageChunksUnguarded(lab, sec, acc, links) == ChunksOf(lab, sec, acc, links)

\* if sec["missing"]: continue
StageChunks(lab, sec, acc, links) ==
  IF sec.missing THEN <<>> ELSE ChunksOf(lab, sec, acc, links)

\* ------------------------------------------------------------------------
\* Tag extraction: CAP_SEQ and extract_tags
\* ------------------------------------------------------------------------

\* the printable ASCII characters in code-point order, from U+0020 (the
\* double quote, the backslash and the grave accent as the atoms "DQUOTE",
\* "BACKSLASH" and "BACKTICK")
ASCII ==
  <<" ","!","DQUOTE","#","$","%","&","'","(",")","*","+",",","-",".","/",
    "0","1","2","3","4","5","6","7","8","9",":",";","<","=",">","?","@",
    "A","B","C","D","E","F","G","H","I","J","K","L","M",
    "N","O","P","Q","R","S","T","U","V","W","X","Y","Z",
    "[","BACKSLASH","]","^","_","BACKTICK",
    "a","b","c","d","e","f","g","h","i","j","k","l","m",
    "n","o","p","q","r","s","t","u","v","w","x","y","z","{","|","}","~">>

\* ord(c)
Ord(c) ==
  IF \E i \in 1..Len(ASCII) : ASCII[i] = c
  THEN 31 + (CHOOSE i \in 1..Len(ASCII) : ASCII[i] = c)
  ELSE CASE c = "TAB" -> 9
         [] c = "NL" -> 10
         [] c = "NBSP" -> 160
         [] c = "EACUTE" -> 233
         [] c = "CACUTE" -> 769
         [] c = "ZWSP" -> 8203
         [] c = "ZWNJ" -> 8204
         [] c = "ZWJ" -> 8205
         [] c = "ENDASH" -> 8211
         [] c = "EMDASH" -> 8212
         [] c = "RSQUO" -> 8217
         [] c = "WJ" -> 8288

\* a < b on Python strings
StrLess(a, b) ==
  \E i \in 1..(Min(Len(a), Len(b)) + 1) :
    /\ \A j \in 1..(i - 1) : a[j] = b[j]
    /\ \/ (i > Len(a) /\ i <= Len(b))
       \/ (i <= Len(a) /\ i <= Len(b) /\ Ord(a[i]) < Ord(b[i]))

\* The two CAP_SEQ patterns.  In the HTML parsers (xml = FALSE) it is
\* [A-Z][\w\u2019']*(?:\s+[A-Z][\w\u2019']*)* ; in the Form 4 and Form 5
\* parsers (xml = TRUE) it is [A-Z][A-Z0-9&\-]*(?: [A-Z0-9&\-]+)* .
\* the characters a word continues with
CapWordChar(xml, c) ==
  IF xml THEN IsUpperChar(c) \/ IsDigit(c) \/ c \in {"&", "-"}
  ELSE IsAlpha(c) \/ IsDigit(c) \/ c \in {"_", "EACUTE", "RSQUO", "'"}

\* the characters a further word of the phrase starts with
CapWordStart(xml, c) == IF xml THEN CapWordChar(xml, c) ELSE IsUpperChar(c)

\* the last index of the word that starts at i
CapWordEnd(xml, s, i) ==
  CHOOSE e \in i..Len(s) :
    /\ \A m \in (i + 1)..e : CapWordChar(xml, s[m])
    /\ (e = Len(s) \/ ~CapWordChar(xml, s[e + 1]))

\* the index where the next word of the phrase starts after the word that
\* ends at e, or 0 when the phrase ends at e
CapNextWord(xml, s, e) ==
  IF xml
  THEN IF e + 2 <= Len(s) /\ s[e + 1] = " " /\ CapWordStart(xml, s[e + 2])
       THEN e + 2 ELSE 0
  ELSE LET after == {j \in (e + 1)..Len(s) : ~IsSpace(s[j])}
       IN  IF after = {} THEN 0
           ELSE LET j == CHOOSE m \in after : \A n \in after : m <= n
                IN  IF j > e + 1 /\ CapWordStart(xml, s[j]) THEN j ELSE 0

\* the last index of the match that has a word starting at i
RECURSIVE CapSeqEnd(_, _, _)
CapSeqEnd(xml, s, i) ==
  LET e == CapWordEnd(xml, s, i)
      n == CapNextWord(xml, s, e)
  IN  IF n = 0 THEN e ELSE CapSeqEnd(xml, s, n)

\* CAP_SEQ.finditer(s) from index i on: the matched phrases, in order
RECURSIVE CapSeqFindAll(_, _, _)
CapSeqFindAll(xml, s, i) ==
  LET starts == {j \in i..Len(s) : IsUpperChar(s[j])}
  IN  IF starts = {} THEN <<>>
      ELSE LET b == CHOOSE m \in starts : \A n \in starts : m <= n
               e == CapSeqEnd(xml, s, b)
           IN  <<SubSeq(s, b, e)>> \o CapSeqFindAll(xml, s, e + 1)

\* the phrases extract_tags iterates over: the matches in the heading, which
\* the Form 4 and Form 5 parsers upper-case first
CapPhrases(xml, heading) ==
  CapSeqFindAll(xml, IF xml THEN StrUpper(heading) ELSE heading, 1)

\* the first word of a phrase, and its last word (words[-1])
FirstWord(phrase) == Split(phrase)[1]

LastWord(phrase) == Split(phrase)[Len(Split(phrase))]

\* the phrase has more than one word:  len(phrase.split()) > 1  in the HTML
\* parsers,  " " in phrase  in the Form 4 and Form 5 parsers
MultiWord(xml, phrase) ==
  IF xml THEN \E i \in 1..Len(phrase) : phrase[i] = " "
  ELSE Len(Split(phrase)) > 1

\* the loop of extract_tags adding the first word of a phrase as well
TagSetWithFirstWord(xml, heading) ==
  LET ms == CapPhrases(xml, heading)
  IN  {ms[k] : k \in 1..Len(ms)}
        \cup {LastWord(ms[k]) : k \in {m \in 1..Len(ms) : MultiWord(xml, ms[m])}}
        \cup {FirstWord(ms[k]) : k \in {m \in 1..Len(ms) : MultiWord(xml, ms[m])}}

\* the set of tags when the loop of extract_tags ends
TagSet(xml, heading) ==
  LET ms == CapPhrases(xml, heading)
  IN  {ms[k] : k \in 1..Len(ms)}
        \cup {LastWord(ms[k]) : k \in {m \in 1..Len(ms) : MultiWord(xml, ms[m])}}

\* the sort key without str.lower
TagKeyCaseSensitive(xml, tag) == tag

\* the sort key: str.lower in the HTML parsers, the tag itself otherwise
TagKey(xml, tag) == IF xml THEN tag ELSE StrLower(tag)

\* x comes before y in the sorted list; two tags with equal keys stand in
\* the iteration order of the set, taken here as their code-point order
TagBefore(xml, x, y) ==
  \/ StrLess(TagKey(xml, x), TagKey(xml, y))
  \/ (TagKey(xml, x) = TagKey(xml, y) /\ StrLess(x, y))

\* extract_tags(heading): sorted(tags, key=str.lower), or sorted(tags)
extract_tags(xml, heading) ==
  LET tags == TagSet(xml, heading)
  IN  [k \in 1..Cardinality(tags) |->
         CHOOSE x \in tags :
           Cardinality({y \in tags : TagBefore(xml, y, x)}) = k - 1]

\* meta["tags"] of a chunk of an HTML parser: extract_tags(sec_name)
MetaTags(meta) == extract_tags(FALSE, meta.section)

\* ------------------------------------------------------------------------
\* The Form 4 parser (parser_4.py): text helpers and the XML document
\* ------------------------------------------------------------------------

\* FORM4_CANON_SECTIONS
FORM4_CANON_SECTIONS ==
  <<
    <<"C","o","v","e","r"," ","P","a","g","e"," ","&"," ","S","t","a","t","e","m","e","n","t"," ",
      "D","a","t","e">>,
    <<"I","s","s","u","e","r"," ","I","n","f","o","r","m","a","t","i","o","n">>,
    <<"R","e","p","o","r","t","i","n","g"," ","O","w","n","e","r"," ","I","n","f","o","r","m","a",
      "t","i","o","n">>,
    <<"T","a","b","l","e"," ","I"," ","ENDASH"," ","N","o","n","-","D","e","r","i","v","a","t",
      "i","v","e"," ","S","e","c","u","r","i","t","i","e","s"," ","A","c","q","u","i","r","e","d",
      "/","D","i","s","p","o","s","e","d","/","O","w","n","e","d">>,
    <<"T","a","b","l","e"," ","I","I"," ","ENDASH"," ","D","e","r","i","v","a","t","i","v","e",
      " ","S","e","c","u","r","i","t","i","e","s"," ","A","c","q","u","i","r","e","d","/","D","i",
      "s","p","o","s","e","d","/","O","w","n","e","d">>,
    <<"F","o","o","t","n","o","t","e","s","/","R","e","m","a","r","k","s">>,
    <<"S","i","g","n","a","t","u","r","e">>,
    <<"D","a","t","e"," ","S","i","g","n","e","d">>
  >>

\* re.sub(r"\s+", " ", s)
CollapseSpace(s) ==
  Flatten([i \in 1..Len(s) |->
             IF IsSpace(s[i])
             THEN (IF i > 1 /\ IsSpace(s[i - 1]) THEN <<>> ELSE <<" ">>)
             ELSE <<s[i]>>])

\* clean_text of parser_4.py
clean_text_form4(text) ==
  Strip(CollapseSpace(SelectSeq(text, NotNonPrinting)))

\* str.rstrip()
RStrip(s) ==
  LET keep == {i \in 1..Len(s) : ~IsSpace(s[i])}
  IN  IF keep = {} THEN <<>>
      ELSE SubSeq(s, 1, CHOOSE i \in keep : \A j \in keep : i >= j)

\* markdown_table(headers, rows) with the loop over the rows left out
markdown_table_no_rows(headers, rows) ==
  RStrip(MdRow(headers) \o MdRow([c \in 1..Len(headers) |-> <<"-", "-", "-">>]))

\* markdown_table(headers, rows)
markdown_table(headers, rows) ==
  RStrip(MdRow(headers)
         \o MdRow([c \in 1..Len(headers) |-> <<"-", "-", "-">>])
         \o Flatten([r \in 1..Len(rows) |-> MdRow(rows[r])]))

\* add_block(sec, text) storing the block without clearing the missing flag
add_block_keeps_missing(secs, sec, text) ==
  IF text # <<>>
  THEN [secs EXCEPT ![sec].html_blocks = Append(@, clean_text_form4(text))]
  ELSE secs

\* add_block(sec, text): the value of `sections` after the call
add_block(secs, sec, text) ==
  IF text # <<>>
  THEN [secs EXCEPT ![sec].html_blocks = Append(@, clean_text_form4(text)),
                    ![sec].missing = FALSE]
  ELSE secs

\* add_block called for each text of a list, in order
RECURSIVE AddBlocks(_, _, _)
AddBlocks(secs, sec, texts) ==
  IF texts = <<>> THEN secs
  ELSE AddBlocks(add_block(secs, sec, Head(texts)), sec, Tail(texts))

\* The elements of a Form 4 document the parser reads.  An optional
\* element is a record with the flag `present`; an element text is a str.
ISSUER_CIK == <<"0","0","0","0","3","2","0","1","9","3">>

\* <issuer>: absent, the issuer of the scenario, or one with empty fields
Issuers ==
  {[present |-> FALSE, issuerCik |-> <<>>, issuerName |-> <<>>,
    issuerTradingSymbol |-> <<>>],
   [present |-> TRUE, issuerCik |-> ISSUER_CIK,
    issuerName |-> <<"A","p","p","l","e"," ","I","n","c",".">>,
    issuerTradingSymbol |-> <<"A","A","P","L">>],
   [present |-> TRUE, issuerCik |-> <<>>, issuerName |-> <<>>,
    issuerTradingSymbol |-> <<>>]}

\* <reportingOwner>: absent, complete, or without its
\* <reportingOwnerRelationship> child
ReportingOwners ==
  {[present |-> FALSE, complete |-> FALSE, rptOwnerCik |-> <<>>,
    rptOwnerName |-> <<>>],
   [present |-> TRUE, complete |-> TRUE,
    rptOwnerCik |-> <<"0","0","0","1","2","1","4","1","5","6">>,
    rptOwnerName |-> <<"C","O","O","K"," ","T","I","M","O","T","H","Y"," ","D">>],
   [present |-> TRUE, complete |-> FALSE,
    rptOwnerCik |-> <<"0","0","0","1","2","1","4","1","5","6">>,
    rptOwnerName |-> <<"C","O","O","K"," ","T","I","M","O","T","H","Y"," ","D">>]}

\* the values read from one <nonDerivativeTransaction>: security title,
\* shares, price, shares owned after, ownership; every value may be absent
Transactions ==
  {<<<<"C","o","m","m","o","n"," ","S","t","o","c","k">>, <<"1","0","0">>, <<"1","5","0",".",
    "2","5">>, <<"1","0","0","0">>, <<"D">>>>,
   <<<<>>, <<>>, <<>>, <<>>, <<>>>>}

\* the values read from one <nonDerivativeHolding>
HOLDING == <<<<"C","o","m","m","o","n"," ","S","t","o","c","k">>, <<"5","0","0">>, <<"I">>>>

MaxTx == 2

\* the sequences of at most n transactions
RECURSIVE TxLists(_)
TxLists(n) ==
  IF n = 0 THEN {<<>>}
  ELSE LET shorter == TxLists(n - 1)
       IN  shorter \cup {Append(l, x) : l \in shorter, x \in Transactions}

\* <nonDerivativeTable>
NonDerivativeTables ==
  {[present |-> FALSE, transactions |-> <<>>, holdings |-> <<>>]}
    \cup {[present |-> TRUE, transactions |-> l, holdings |-> h] :
            l \in TxLists(MaxTx), h \in {<<>>, <<HOLDING>>}}

\* the values read from one <derivativeTransaction>
DERIVATIVE_TX ==
  <<<<"S","t","o","c","k"," ","O","p","t","i","o","n">>, <<"2","0","0">>, <<"1","0",".","0",
    "0">>, <<"2","0","3","0","-","0","1","-","0","1">>, <<"2","0","0">>, <<"D">>>>

\* <derivativeTable>
DerivativeTables ==
  {[present |-> FALSE, transactions |-> <<>>],
   [present |-> TRUE, transactions |-> <<DERIVATIVE_TX>>]}

\* <footnotes>: absent, or holding one <footnote id="F1">
Footnotes ==
  {[present |-> FALSE, notes |-> <<>>],
   [present |-> TRUE,
    notes |-> <<[id |-> <<"F","1">>,
                 text |-> <<"S","h","a","r","e","s"," ","s","o","l","d","NL","u","n","d","e",
                   "r"," ","a"," ","p","l","a","n",".">>]>>]}

\* <ownerSignature>
Signatures ==
  {[present |-> FALSE, signatureName |-> <<>>, signatureDate |-> <<>>],
   [present |-> TRUE, signatureName |-> <<"T","i","m"," ","C","o","o","k">>,
    signatureDate |-> <<"2","0","2","4","-","0","1","-","0","4">>],
   [present |-> TRUE, signatureName |-> <<>>,
    signatureDate |-> <<"2","0","2","4","-","0","1","-","0","4">>]}

\* the documents parsed
Form4Roots ==
  [documentType : {<<"4">>},
   periodOfReport : {<<"2","0","2","4","-","0","1","-","0","2">>},
   dateOfEarliestTransaction : {<<"2","0","2","4","-","0","1","-","0","2">>},
   issuer : Issuers,
   reportingOwner : ReportingOwners,
   nonDerivativeTable : NonDerivativeTables,
   derivativeTable : DerivativeTables,
   footnotes : Footnotes,
   remarks : {<<>>, <<"n","o","n","e">>},
   ownerSignature : Signatures]

\* the text of the cover block
CoverText(doc) ==
  <<"D","o","c","u","m","e","n","t"," ","T","y","p","e",":"," ">> \o doc.documentType \o <<"NL">>
    \o <<"P","e","r","i","o","d"," ","o","f"," ","R","e","p","o","r","t",":",
      " ">> \o doc.periodOfReport \o <<"NL">>
    \o <<"T","r","a","n","s","a","c","t","i","o","n"," ","D","a","t","e"," ","(","e","a","r",
      "l","i","e","s","t",")",":"," ">>
    \o doc.dateOfEarliestTransaction

FIELD_VALUE == <<<<"F","i","e","l","d">>, <<"V","a","l","u","e">>>>

\* the rows of the issuer table
IssuerRows(doc) ==
  <<<<<<"C","I","K">>, doc.issuer.issuerCik>>,
    <<<<"N","a","m","e">>, doc.issuer.issuerName>>,
    <<<<"T","r","a","d","i","n","g"," ","S","y","m","b","o","l">>,
      doc.issuer.issuerTradingSymbol>>>>

\* the rows of the reporting owner table (the address and relationship
\* values are left empty)
OwnerRows(doc) ==
  <<<<<<"O","w","n","e","r"," ","C","I","K">>, doc.reportingOwner.rptOwnerCik>>,
    <<<<"O","w","n","e","r"," ","N","a","m","e">>, doc.reportingOwner.rptOwnerName>>,
    <<<<"S","t","r","e","e","t"," ","1">>, <<>>>>,
    <<<<"C","i","t","y">>, <<>>>>,
    <<<<"S","t","a","t","e">>, <<>>>>,
    <<<<"Z","i","p">>, <<>>>>,
    <<<<"I","s"," ","O","f","f","i","c","e","r">>, <<>>>>,
    <<<<"O","f","f","i","c","e","r"," ","T","i","t","l","e">>, <<>>>>>>

TABLE_I_HEADERS ==
  <<<<"S","e","c","u","r","i","t","y"," ","T","i","t","l","e">>, <<"T","r","a","n","s","."," ",
    "S","h","a","r","e","s">>, <<"T","r","a","n","s","."," ","P","r","i","c","e">>, <<"S","h",
    "a","r","e","s"," ","A","f","t","e","r">>, <<"O","w","n","e","r","s","h","i","p">>>>

TABLE_II_HEADERS ==
  <<<<"S","e","c","u","r","i","t","y"," ","T","i","t","l","e">>, <<"U","n","d","e","r","l","y",
    "i","n","g"," ","S","h","a","r","e","s">>, <<"E","x","."," ","P","r","i","c","e">>, <<"E",
    "x","p","i","r","a","t","i","o","n">>, <<"T","r","a","n","s","."," ","S","h","a","r","e",
    "s">>, <<"O","w","n","e","r","s","h","i","p">>>>

\* the rows of Table I: the transactions, then the holdings with two empty
\* transaction cells
TableIRows(doc) ==
  doc.nonDerivativeTable.transactions
    \o [k \in 1..Len(doc.nonDerivativeTable.holdings) |->
          LET h == doc.nonDerivativeTable.holdings[k]
          IN  <<h[1], <<>>, <<>>, h[2], h[3]>>]

\* the texts of the footnote blocks and of the remarks block
FootnoteTexts(doc) ==
  [k \in 1..Len(doc.footnotes.notes) |->
     <<"[">> \o doc.footnotes.notes[k].id \o <<"]", " ">>
       \o clean_text_form4(doc.footnotes.notes[k].text)]
    \o (IF doc.remarks # <<>>
        THEN <<<<"R","e","m","a","r","k","s",":"," ">> \o doc.remarks>>
        ELSE <<>>)

\* ------------------------------------------------------------------------
\* Provenance: load_links, the accession and the filing date
\* ------------------------------------------------------------------------

\* s.split("_")[-1]
LastSegment(s) ==
  LET seps == {i \in 1..Len(s) : s[i] = "_"}
  IN  IF seps = {} THEN s
      ELSE SubSeq(s, (CHOOSE i \in seps : \A j \in seps : i >= j) + 1, Len(s))

\* (re.search(r"(\d{8})", s) or [""])[0]: the first eight consecutive digits
FirstEightDigits(s) ==
  LET hits == {i \in 1..(Len(s) - 7) : \A j \in 0..7 : IsDigit(s[i + j])}
  IN  IF hits = {} THEN <<>>
      ELSE SubSeq(s, CHOOSE i \in hits : \A j \in hits : i <= j,
                  (CHOOSE i \in hits : \A j \in hits : i <= j) + 7)

\* the entries of links.json a parser keeps: the 10-K parser keeps those of
\* every form type, the other parsers those filed under their own
KeepsEntry(form, entry) == form = FORM_10K \/ entry.form = form

\* load_links(ticker) of the parser of a form type, for the entries of the
\* ticker's links.json in iteration order (form type, full key, URL): the
\* dict from accession to URL, a later entry replacing an earlier one
load_links(form, entries) ==
  LET kept == {k \in 1..Len(entries) : KeepsEntry(form, entries[k])}
  IN  [a \in {LastSegment(entries[k].key) : k \in kept} |->
         entries[CHOOSE k \in kept :
                   /\ LastSegment(entries[k].key) = a
                   /\ \A m \in kept : LastSegment(entries[m].key) = a => m <= k].url]

\* Pieces of heading text; the inputs of match_section are concatenations
\* of them: 'Item 7. ', 'Unrelated Heading Text', 'Signatures', 'COVER PAGE',
\* 'Item 99 - ', 'item<LF>1a ', 'Event Date' and
\* 'Section 7 <en dash> 7.01 Regulation FD Disclosure'
MatchFragments ==
  <<
    <<"I","t","e","m"," ","7","."," ">>,
    <<"U","n","r","e","l","a","t","e","d"," ","H","e","a","d","i","n","g"," ","T","e","x","t">>,
    <<"S","i","g","n","a","t","u","r","e","s">>,
    <<"C","O","V","E","R"," ","P","A","G","E">>,
    <<"I","t","e","m"," ","9","9"," ","-"," ">>,
    <<"i","t","e","m","NL","1","a"," ">>,
    <<"E","v","e","n","t"," ","D","a","t","e">>,
    <<"S","e","c","t","i","o","n"," ","7"," ","ENDASH"," ","7",".","0","1"," ","R","e","g","u",
      "l","a","t","i","o","n"," ","F","D"," ","D","i","s","c","l","o","s","u","r","e">>
  >>

\* Pieces of raw text; the inputs of clean_text are concatenations of them
\* ('&amp;' followed by 'amp;' is '&amp;amp;')
CleanFragments ==
  <<
    <<"&","a","m","p",";">>,
    <<"a","m","p",";">>,
    <<"&">>,
    <<"&","n","b","s","p",";">>,
    <<" ">>,
    <<"a">>,
    <<"ZWSP">>,
    <<"NBSP">>,
    <<"ENDASH">>,
    <<"EMDASH">>,
    <<"NL">>,
    <<"e">>,
    <<"CACUTE">>,
    <<"TAB">>
  >>

VARIABLES
  pc,                  \* position of the running program
  form_type,           \* form type whose parser runs
  raw_text,            \* input of match_section / clean_text
  result,              \* what match_section returned
  once,                \* clean_text(text)
  twice,               \* clean_text(clean_text(text))
  sec_name,            \* chunk stage: label of the section being chunked
  sec_missing,         \* chunk stage: the section's missing flag
  tokens,              \* chunk stage: token_count(plain_text) of the section
  chunks,              \* chunk stage: meta of the chunks appended, in order
  loop_start,          \* chunk stage: `start` of the sliding-window loop
  nodes,               \* list(body.descendants) of the parsed document
  pos,                 \* index of the walker's loop (0-based, as in the code)
  txt,                 \* walker: cleaned text of the node being handled
  canon,               \* walker: what match_section returned for it
  current_section,     \* walker: label of the open section, or None
  current_sub,         \* walker: title of the open subsection, or None
  sections,            \* label -> section record
  accession,           \* accession number taken from the file name
  link_map,            \* accession -> source URL
  missing_sources,     \* accessions build_meta found no URL for
  root,                \* Form 4: the root element of the parsed XML
  links_json,          \* the entries of links.json, in iteration order
  fp_stem,             \* fp.stem, the file name without its suffix
  filing_date,         \* the filing date taken from the accession
  worklist,            \* batch: the files to process
  idx,                 \* batch: number of files handled so far
  success,             \* batch counter
  fail,                \* batch counter
  artifacts,           \* batch: files whose <stem>_chunks.json was written
  missing_sources_all  \* batch: union of the parses' missing sources

textVars == <<form_type, raw_text, result, once, twice>>

chunkVars == <<sec_name, sec_missing, tokens, chunks, loop_start>>

\* the links file and what is read from the file name
fileVars == <<links_json, fp_stem, filing_date>>

parseVars == <<nodes, pos, txt, canon, current_section, current_sub, sections, accession, link_map,
               missing_sources, root,
               fileVars>>

batchVars == <<worklist, idx, success, fail, artifacts, missing_sources_all>>

vars == <<pc, textVars, chunkVars, parseVars, batchVars>>

\* ------------------------------------------------------------------------
\* Values of the variables a specification does not use
\* ------------------------------------------------------------------------

TextIdle ==
  /\ form_type = FORM_10K
  /\ raw_text = <<>>
  /\ result = None
  /\ once = <<>>
  /\ twice = <<>>

ChunkIdle ==
  /\ sec_name = None
  /\ sec_missing = TRUE
  /\ tokens = 0
  /\ loop_start = 0
  /\ chunks = <<>>

ParseIdle ==
  /\ nodes = <<>>
  /\ root = None
  /\ links_json = <<>>
  /\ fp_stem = <<>>
  /\ filing_date = <<>>
  /\ pos = 0
  /\ txt = <<>>
  /\ canon = None
  /\ current_section = None
  /\ current_sub = None
  /\ sections = <<>>
  /\ accession = ""
  /\ link_map = <<>>
  /\ missing_sources = {}

BatchIdle ==
  /\ worklist = <<>>
  /\ idx = 0
  /\ success = 0
  /\ fail = 0
  /\ artifacts = {}
  /\ missing_sources_all = {}

\* all concatenations of at most n of the fragments
RECURSIVE Concats(_, _)
Concats(frags, n) ==
  IF n = 0 THEN {<<>>}
  ELSE LET shorter == Concats(frags, n - 1)
       IN  shorter \cup {t \o frags[k] : t \in shorter, k \in 1..Len(frags)}

\* ------------------------------------------------------------------------
\* SpecMatch: match_section applied to one heading text
\* ------------------------------------------------------------------------

MaxMatchFrags == 2

InitMatch ==
  /\ pc = "match"
  /\ form_type \in Forms
  /\ raw_text \in Concats(MatchFragments, MaxMatchFrags)
                  \cup Labels(RAW_CANON_SECTIONS(form_type))
  /\ result = None
  /\ once = <<>>
  /\ twice = <<>>
  /\ ChunkIdle
  /\ ParseIdle
  /\ BatchIdle

MatchSection ==
  /\ pc = "match"
  /\ result' = match_section(form_type, raw_text)
  /\ pc' = "matched"
  /\ UNCHANGED <<form_type, raw_text, once, twice, chunkVars, parseVars, batchVars>>

NextMatch == MatchSection

SpecMatch == InitMatch /\ [][NextMatch]_vars

\* ------------------------------------------------------------------------
\* SpecClean: clean_text applied to a raw text, and again to its own output
\* ------------------------------------------------------------------------

MaxCleanFrags == 3

InitClean ==
  /\ pc = "raw"
  /\ form_type \in Forms
  /\ raw_text \in Concats(CleanFragments, MaxCleanFrags)
  /\ result = None
  /\ once = <<>>
  /\ twice = <<>>
  /\ ChunkIdle
  /\ ParseIdle
  /\ BatchIdle

Normalize ==
  /\ pc = "raw"
  /\ once' = CleanText(form_type, raw_text)
  /\ pc' = "normalized"
  /\ UNCHANGED <<form_type, raw_text, result, twice, chunkVars, parseVars, batchVars>>

NormalizeAgain ==
  /\ pc = "normalized"
  /\ twice' = CleanText(form_type, once)
  /\ pc' = "renormalized"
  /\ UNCHANGED <<form_type, raw_text, result, once, chunkVars, parseVars, batchVars>>

NextClean == Normalize \/ NormalizeAgain

SpecClean == InitClean /\ [][NextClean]_vars

\* ------------------------------------------------------------------------
\* SpecChunk: the chunk stage applied to one section of a walked document
\* ------------------------------------------------------------------------

MaxTokens == 2000

\* accession numbers of the files, and the URLs links.json may hold
Accessions == {"0000320193-24-000008", "0000320193-23-000106"}

Urls == {"https://www.sec.gov/Archives/a.htm", ""}

LinkMaps ==
  UNION {[D -> Urls] : D \in SUBSET Accessions}

InitChunk ==
  /\ pc = "walked"
  /\ TextIdle
  /\ BatchIdle
  /\ nodes = <<>>
  /\ root = None
  /\ links_json = <<>>
  /\ fp_stem = <<>>
  /\ filing_date = <<>>
  /\ pos = 0
  /\ txt = <<>>
  /\ canon = None
  /\ current_section = None
  /\ current_sub = None
  /\ sections = <<>>
  /\ sec_name \in {CANON_10K[1], CANON_10K[13]}
  /\ sec_missing \in BOOLEAN
  /\ tokens \in 0..MaxTokens
  /\ loop_start = 0
  /\ chunks = <<>>
  /\ accession = "0000320193-24-000008"
  /\ link_map \in LinkMaps
  /\ missing_sources = {}

\* if sec["missing"]: continue
SkipMissing ==
  /\ pc = "walked"
  /\ sec_missing
  /\ pc' = "chunked"
  /\ UNCHANGED <<textVars, chunkVars, parseVars, batchVars>>

\* if tokens <= TOKEN_LIMIT: one chunk over the whole text
EmitSingle ==
  /\ pc = "walked"
  /\ ~sec_missing
  /\ FitsOneChunk(tokens)
  /\ chunks' = chunks \o SectionChunks(sec_name, tokens, accession, link_map)
  /\ missing_sources' = MissesAfter(missing_sources, tokens, accession, link_map)
  /\ pc' = "chunked"
  /\ UNCHANGED <<textVars, sec_name, sec_missing, tokens, loop_start, nodes, root, fileVars, pos, txt, canon, current_section,
                 current_sub, sections, accession, link_map, batchVars>>

\* else: the sliding-window loop
EmitWindows ==
  /\ pc = "walked"
  /\ ~sec_missing
  /\ ~FitsOneChunk(tokens)
  /\ chunks' = chunks \o SectionChunks(sec_name, tokens, accession, link_map)
  /\ missing_sources' = MissesAfter(missing_sources, tokens, accession, link_map)
  /\ pc' = "chunked"
  /\ UNCHANGED <<textVars, sec_name, sec_missing, tokens, loop_start, nodes, root, fileVars, pos, txt, canon, current_section,
                 current_sub, sections, accession, link_map, batchVars>>

NextChunk == SkipMissing \/ EmitSingle \/ EmitWindows

SpecChunk == InitChunk /\ [][NextChunk]_vars

\* ------------------------------------------------------------------------
\* SpecParse: parse_10k_file, the walk over the nodes and the chunk stage
\* ------------------------------------------------------------------------

MaxElems == 3

\* The top-level elements a document body is built from, each as the list
\* of its descendants-or-self in document order.
Elements ==
  << \* <p>Item 1A. Risk Factors</p>
     << TagNode("p", FALSE, 1),
        StrNode(<<"I","t","e","m"," ","1","A","."," ","R","i","s","k"," ",
                  "F","a","c","t","o","r","s">>) >>,
     \* <p>Signatures</p>
     << TagNode("p", FALSE, 1),
        StrNode(<<"S","i","g","n","a","t","u","r","e","s">>) >>,
     \* <p>alpha beta</p>
     << TagNode("p", FALSE, 1),
        StrNode(<<"a","l","p","h","a"," ","b","e","t","a">>) >>,
     \* <div><span>gamma </span></div>
     << TagNode("div", FALSE, 2), TagNode("span", FALSE, 1),
        StrNode(<<"g","a","m","m","a"," ">>) >>,
     \* <b>Overview</b>
     << TagNode("b", FALSE, 1),
        StrNode(<<"O","v","e","r","v","i","e","w">>) >>,
     \* <p>KEY RISKS</p>
     << TagNode("p", FALSE, 1),
        StrNode(<<"K","E","Y"," ","R","I","S","K","S">>) >>,
     \* <table><tr><th>h</th></tr><tr><td>7</td></tr></table>
     << TagNode("table", FALSE, 6),
        TagNode("tr", FALSE, 2), TagNode("th", FALSE, 1), StrNode(<<"h">>),
        TagNode("tr", FALSE, 2), TagNode("td", FALSE, 1), StrNode(<<"7">>) >>,
     \* <table><caption>cap</caption></table>
     << TagNode("table", FALSE, 2), TagNode("caption", FALSE, 1),
        StrNode(<<"c","a","p">>) >>,
     \* <br/> followed by a line break in the markup
     << TagNode("br", FALSE, 0), StrNode(<<"NL">>) >> >>

\* the node lists of the documents of at most n elements
RECURSIVE Documents(_)
Documents(n) ==
  IF n = 0 THEN {<<>>}
  ELSE LET shorter == Documents(n - 1)
       IN  shorter \cup {d \o Elements[k] : d \in shorter, k \in 1..Len(Elements)}

\* n words separated by single spaces
Words(n) == Join(<<" ">>, [k \in 1..n |-> <<"w","o","r","d">>])

\* <h2>ITEM 1A. RISK FACTORS</h2> <p>20 words</p> <p>20 words</p>
\* <h2>ITEM 1B.</h2>
RiskFactorsDocument ==
  << TagNode("h2", FALSE, 1),
     StrNode(<<"I","T","E","M"," ","1","A","."," ","R","I","S","K"," ","F","A","C","T","O","R","S">>),
     TagNode("p", FALSE, 1), StrNode(Words(20)),
     TagNode("p", FALSE, 1), StrNode(Words(20)),
     TagNode("h2", FALSE, 1),
     StrNode(<<"I","T","E","M"," ","1","B",".">>) >>

\* <table><tr><td>t</td></tr><tr><th>h</th></tr></table>: the header cells
\* stand in the second row
TitleRowTable ==
  << TagNode("table", FALSE, 6),
     TagNode("tr", FALSE, 2), TagNode("td", FALSE, 1), StrNode(<<"t">>),
     TagNode("tr", FALSE, 2), TagNode("th", FALSE, 1), StrNode(<<"h">>) >>

\* <table><tr><td>a</td></tr><tr><td>b</td></tr></table>: no header cell
PlainTable ==
  << TagNode("table", FALSE, 6),
     TagNode("tr", FALSE, 2), TagNode("td", FALSE, 1), StrNode(<<"a">>),
     TagNode("tr", FALSE, 2), TagNode("td", FALSE, 1), StrNode(<<"b">>) >>

\* <table><tr><td>TOTAL ASSETS</td></tr></table>: a table whose text is
\* two upper-case words
UpperCaseTable ==
  << TagNode("table", FALSE, 3),
     TagNode("tr", FALSE, 2), TagNode("td", FALSE, 1),
     StrNode(<<"T","O","T","A","L"," ","A","S","S","E","T","S">>) >>

\* further documents that are parsed: the Risk Factors document, and the
\* Item 1A heading followed by each of the tables
\* Item 1A, <b>Overview</b>, a paragraph and a table: section-level content
\* after subsection content
SubsectionThenTable == Elements[1] \o Elements[5] \o Elements[3] \o Elements[7]

\* Item 1A with a paragraph, Signatures, and Item 1A again with a paragraph
ReopenedSection ==
  Elements[1] \o Elements[3] \o Elements[2] \o Elements[1] \o Elements[3]

ScenarioDocuments ==
  {RiskFactorsDocument, Elements[1] \o TitleRowTable, Elements[1] \o PlainTable,
   Elements[1] \o UpperCaseTable, SubsectionThenTable, ReopenedSection}

InitParse ==
  /\ pc = "walk"
  /\ TextIdle
  /\ ChunkIdle
  /\ BatchIdle
  /\ nodes \in Documents(MaxElems) \cup ScenarioDocuments
  /\ root = None
  /\ links_json = <<>>
  /\ fp_stem = <<>>
  /\ filing_date = <<>>
  /\ pos = 0
  /\ txt = <<>>
  /\ canon = None
  /\ current_section = None
  /\ current_sub = None
  /\ sections = [lab \in Labels(CANON_10K) |-> EmptySection]
  /\ accession = "0000320193-24-000008"
  /\ link_map \in {[a \in {} |-> ""],
                   [a \in {"0000320193-24-000008"} |-> "https://www.sec.gov/Archives/a.htm"]}
  /\ missing_sources = {}

InLoop == pc = "walk" /\ pos < Len(nodes)

AtNode == pc = "node"

walkIdle == <<textVars, chunkVars, batchVars, nodes, root, fileVars, accession, link_map, missing_sources>>

\* if not isinstance(node, Tag): continue
SkipString ==
  /\ InLoop
  /\ ~nodes[pos + 1].tag
  /\ pos' = pos + 1
  /\ UNCHANGED <<pc, walkIdle, txt, canon, current_section, current_sub, sections>>

\* txt = clean_text(node.get_text(" ", strip=True)) and, for a non-empty
\* txt, canon = match_section(txt): the locals the branches below test
ReadNode ==
  /\ InLoop
  /\ nodes[pos + 1].tag
  /\ txt' = clean_text(GetText(nodes, pos + 1))
  /\ canon' = IF txt' = <<>> THEN None ELSE match_section(FORM_10K, txt')
  /\ pc' = "node"
  /\ UNCHANGED <<walkIdle, pos, current_section, current_sub, sections>>

\* if not txt: continue
SkipEmpty ==
  /\ AtNode
  /\ txt = <<>>
  /\ pos' = pos + 1
  /\ pc' = "walk"
  /\ UNCHANGED <<walkIdle, txt, canon, current_section, current_sub, sections>>

\* the heading branch without  sections[canon]["missing"] = False
HeadingKeepsMissing ==
  /\ AtNode
  /\ txt # <<>>
  /\ canon # None
  /\ current_section' = canon
  /\ current_sub' = None
  /\ pos' = pos + 1
  /\ pc' = "walk"
  /\ UNCHANGED <<walkIdle, txt, canon, sections>>

\* the heading branch without  current_sub = None
HeadingKeepsSub ==
  /\ AtNode
  /\ txt # <<>>
  /\ canon # None
  /\ current_section' = canon
  /\ sections' = [sections EXCEPT ![canon].missing = FALSE]
  /\ pos' = pos + 1
  /\ pc' = "walk"
  /\ UNCHANGED <<walkIdle, txt, canon, current_sub>>

\* if (canon := match_section(txt)): open the section
Heading ==
  /\ AtNode
  /\ txt # <<>>
  /\ canon # None
  /\ current_section' = canon
  /\ current_sub' = None
  /\ sections' = [sections EXCEPT ![canon].missing = FALSE]
  /\ pos' = pos + 1
  /\ pc' = "walk"
  /\ UNCHANGED <<walkIdle, txt, canon>>

\* the front-matter test placed below the subheading test
SkipFrontMatterAfterSubheading ==
  /\ AtNode
  /\ txt # <<>>
  /\ canon = None
  /\ current_section = None
  /\ current_sub' = IF detect_subheading(nodes, pos + 1) THEN txt ELSE current_sub
  /\ pos' = pos + 1
  /\ pc' = "walk"
  /\ UNCHANGED <<walkIdle, txt, canon, current_section, sections>>

\* if current_section is None: continue
SkipFrontMatter ==
  /\ AtNode
  /\ txt # <<>>
  /\ canon = None
  /\ current_section = None
  /\ pos' = pos + 1
  /\ pc' = "walk"
  /\ UNCHANGED <<walkIdle, txt, canon, current_section, current_sub, sections>>

\* the node reached the tests below the heading and front-matter tests
InSection == AtNode /\ txt # <<>> /\ canon = None /\ current_section # None

\* if detect_subheading(node): current_sub = txt
Subheading ==
  /\ InSection
  /\ detect_subheading(nodes, pos + 1)
  /\ current_sub' = txt
  /\ pos' = pos + 1
  /\ pc' = "walk"
  /\ UNCHANGED <<walkIdle, txt, canon, current_section, sections>>

\* the table test placed above the subheading test
AtTableBeforeSubheading ==
  /\ InSection
  /\ nodes[pos + 1].name = "table"

\* the node is a table that is no subheading
AtTable ==
  /\ InSection
  /\ ~detect_subheading(nodes, pos + 1)
  /\ nodes[pos + 1].name = "table"

\* if node.name == "table": capture it with the text of the list's
\* neighbours as context
Table ==
  /\ AtTable
  /\ ~TableRaisesAt(nodes, pos + 1)
  /\ LET pre  == IF pos # 0 THEN clean_text(GetText(nodes, pos)) ELSE <<>>
         post == IF pos + 1 < Len(nodes) THEN clean_text(GetText(nodes, pos + 2))
                 ELSE <<>>
         tbl_dict == table_to_dict(nodes, pos + 1, pre, post)
         block == pre \o <<"NL", "NL">> \o dict_to_markdown(tbl_dict)
                      \o <<"NL", "NL">> \o post
     IN  sections' = [sections EXCEPT
                        ![current_section].tables = Append(@, tbl_dict),
                        ![current_section].html_blocks = Append(@, block)]
  /\ pos' = pos + 1
  /\ pc' = "walk"
  /\ UNCHANGED <<walkIdle, txt, canon, current_section, current_sub>>

\* the table has no row: IndexError leaves parse_10k_file
TableRaises ==
  /\ AtTable
  /\ TableRaisesAt(nodes, pos + 1)
  /\ pc' = "raised"
  /\ UNCHANGED <<walkIdle, txt, canon, pos, current_section, current_sub, sections>>

\* the content branch with target always the section's block list
ContentIgnoresSubsection ==
  /\ InSection
  /\ ~detect_subheading(nodes, pos + 1)
  /\ nodes[pos + 1].name # "table"
  /\ sections' = [sections EXCEPT ![current_section].html_blocks = Append(@, txt)]
  /\ pos' = pos + 1
  /\ pc' = "walk"
  /\ UNCHANGED <<walkIdle, txt, canon, current_section, current_sub>>

\* target.append(txt)
Content ==
  /\ InSection
  /\ ~detect_subheading(nodes, pos + 1)
  /\ nodes[pos + 1].name # "table"
  /\ sections' =
       IF current_sub = None
       THEN [sections EXCEPT ![current_section].html_blocks = Append(@, txt)]
       ELSE [sections EXCEPT ![current_section].subsections =
                               SubAppend(@, current_sub, txt)]
  /\ pos' = pos + 1
  /\ pc' = "walk"
  /\ UNCHANGED <<walkIdle, txt, canon, current_section, current_sub>>

\* the loop over sections.items(): chunk every section
ChunkStage ==
  /\ pc = "walk"
  /\ pos = Len(nodes)
  /\ sections' = [lab \in DOMAIN sections |->
                    [sections[lab] EXCEPT
                       !.chunks = @ \o StageChunks(lab, sections[lab], accession, link_map)]]
  /\ missing_sources' =
       IF (\E lab \in DOMAIN sections : ~sections[lab].missing)
          /\ LinkGet(link_map, accession) = ""
       THEN missing_sources \cup {accession} ELSE missing_sources
  /\ pc' = "parsed"
  /\ UNCHANGED <<textVars, chunkVars, batchVars, nodes, root, fileVars, pos, txt, canon,
                 current_section, current_sub, accession, link_map>>

NextParse ==
  \/ SkipString \/ ReadNode \/ SkipEmpty \/ Heading \/ SkipFrontMatter \/ Subheading
  \/ Table \/ TableRaises \/ Content \/ ChunkStage

SpecParse == InitParse /\ [][NextParse]_vars

\* ------------------------------------------------------------------------
\* SpecBatch: main(), the loop over the worklist
\* ------------------------------------------------------------------------

MaxFiles == 5

\* What main() can observe of a file: whether parse_10k_file raises on it
\* (corrupt), the accession in its name, and whether the parse builds any
\* chunk (content: some section is not missing).
FileKinds ==
  {[corrupt |-> TRUE, acc |-> "0000320193-24-000008", content |-> FALSE],
   [corrupt |-> FALSE, acc |-> "0000320193-24-000008", content |-> TRUE],
   [corrupt |-> FALSE, acc |-> "0000320193-24-000008", content |-> FALSE],
   [corrupt |-> FALSE, acc |-> "0000320193-23-000106", content |-> TRUE]}

\* the worklists of at most n files
RECURSIVE Worklists(_)
Worklists(n) ==
  IF n = 0 THEN {<<>>}
  ELSE LET shorter == Worklists(n - 1)
       IN  shorter \cup {Append(w, k) : w \in shorter, k \in FileKinds}

\* the set of misses parse_10k_file returns for a file it parses
ParseMisses(file, links) ==
  IF file.content /\ LinkGet(links, file.acc) = "" THEN {file.acc} ELSE {}

InitBatch ==
  /\ pc = "batch"
  /\ TextIdle
  /\ ChunkIdle
  /\ nodes = <<>>
  /\ root = None
  /\ links_json = <<>>
  /\ fp_stem = <<>>
  /\ filing_date = <<>>
  /\ pos = 0
  /\ txt = <<>>
  /\ canon = None
  /\ current_section = None
  /\ current_sub = None
  /\ sections = <<>>
  /\ accession = ""
  /\ missing_sources = {}
  /\ link_map \in {[a \in {} |-> ""],
                   [a \in {"0000320193-24-000008"} |-> "https://www.sec.gov/Archives/a.htm"]}
  /\ worklist \in Worklists(MaxFiles)
  /\ idx = 0
  /\ success = 0
  /\ fail = 0
  /\ artifacts = {}
  /\ missing_sources_all = {}

\* one iteration: mkdir, parse and write all succeed
FileSucceeds ==
  /\ pc = "batch"
  /\ idx < Len(worklist)
  /\ ~worklist[idx + 1].corrupt
  /\ artifacts' = artifacts \cup {idx + 1}
  /\ success' = success + 1
  /\ missing_sources_all' =
       missing_sources_all \cup ParseMisses(worklist[idx + 1], link_map)
  /\ idx' = idx + 1
  /\ UNCHANGED <<pc, textVars, chunkVars, parseVars, worklist, fail>>

\* one iteration: parse_10k_file raises and the failure goes uncounted
ParseRaisesUncounted ==
  /\ pc = "batch"
  /\ idx < Len(worklist)
  /\ worklist[idx + 1].corrupt
  /\ idx' = idx + 1
  /\ UNCHANGED <<pc, textVars, chunkVars, parseVars, worklist, success, fail, artifacts,
                 missing_sources_all>>

\* one iteration: parse_10k_file raises, the except clause counts the failure
ParseRaises ==
  /\ pc = "batch"
  /\ idx < Len(worklist)
  /\ worklist[idx + 1].corrupt
  /\ fail' = fail + 1
  /\ idx' = idx + 1
  /\ UNCHANGED <<pc, textVars, chunkVars, parseVars, worklist, success, artifacts,
                 missing_sources_all>>

\* one iteration: the parse returns, json.dumps or write_text raises, the
\* except clause counts the failure
WriteRaises ==
  /\ pc = "batch"
  /\ idx < Len(worklist)
  /\ ~worklist[idx + 1].corrupt
  /\ fail' = fail + 1
  /\ idx' = idx + 1
  /\ UNCHANGED <<pc, textVars, chunkVars, parseVars, worklist, success, artifacts,
                 missing_sources_all>>

\* one iteration: out_dir.mkdir raises before the try block is entered; the
\* exception leaves main()
MkdirRaises ==
  /\ pc = "batch"
  /\ idx < Len(worklist)
  /\ pc' = "crashed"
  /\ UNCHANGED <<textVars, chunkVars, parseVars, batchVars>>

\* the loop is over: the summary is printed
Summary ==
  /\ pc = "batch"
  /\ idx = Len(worklist)
  /\ pc' = "done"
  /\ UNCHANGED <<textVars, chunkVars, parseVars, batchVars>>

NextBatch == FileSucceeds \/ ParseRaises \/ WriteRaises \/ MkdirRaises \/ Summary

SpecBatch == InitBatch /\ [][NextBatch]_vars

\* the files of the worklist on which the parse raises
CorruptFiles == {k \in 1..Len(worklist) : worklist[k].corrupt}

\* the chunks of the document parse_10k_file returns for a file it parses: a
\* file with content has one non-missing section, a file without any
\* recognised heading has none, so build_meta is never called for it
ParseChunks(file, links) ==
  IF file.content THEN SectionChunks(CANON_10K[5], 40, file.acc, links)
  ELSE <<>>

\* parsed_doc["meta"]["source_url"]
DocSourceUrl(file, links) == LinkGet(links, file.acc)

\* the accessions the summary reports under "Missing SEC source URLs"
ReportedUnresolved == IF pc = "done" THEN missing_sources_all ELSE {}

\* ------------------------------------------------------------------------
\* SpecForm4: parse_form4_xml, section by section, then the chunk stage
\* ------------------------------------------------------------------------

InitForm4 ==
  /\ pc = "cover"
  /\ TextIdle
  /\ ChunkIdle
  /\ BatchIdle
  /\ nodes = <<>>
  /\ pos = 0
  /\ txt = <<>>
  /\ canon = None
  /\ current_section = None
  /\ current_sub = None
  /\ root \in Form4Roots
  /\ links_json = <<>>
  /\ fp_stem = <<>>
  /\ filing_date = <<>>
  /\ sections = [lab \in Labels(FORM4_CANON_SECTIONS) |-> EmptySection]
  /\ accession = "0000320193-24-000008"
  /\ link_map \in {[a \in {} |-> ""],
                   [a \in {"0000320193-24-000008"} |-> "https://www.sec.gov/Archives/a.xml"]}
  /\ missing_sources = {}

form4Idle ==
  <<textVars, chunkVars, batchVars, nodes, pos, txt, canon, current_section, current_sub,
    root, fileVars, accession, link_map>>

\* Cover Page & Statement Date
CoverPage ==
  /\ pc = "cover"
  /\ sections' = add_block(sections, FORM4_CANON_SECTIONS[1], CoverText(root))
  /\ pc' = "issuer"
  /\ UNCHANGED <<form4Idle, missing_sources>>

\* Issuer Information
IssuerInformation ==
  /\ pc = "issuer"
  /\ sections' =
       IF root.issuer.present
       THEN add_block(sections, FORM4_CANON_SECTIONS[2],
                      markdown_table(FIELD_VALUE, IssuerRows(root)))
       ELSE sections
  /\ pc' = "owner"
  /\ UNCHANGED <<form4Idle, missing_sources>>

\* rep.find(...) returned None for a child of <reportingOwner>: findtext on
\* it raises AttributeError
OwnerRaisesAt(doc) == doc.reportingOwner.present /\ ~doc.reportingOwner.complete

\* Reporting Owner Information
ReportingOwner ==
  /\ pc = "owner"
  /\ ~OwnerRaisesAt(root)
  /\ sections' =
       IF root.reportingOwner.present
       THEN add_block(sections, FORM4_CANON_SECTIONS[3],
                      markdown_table(FIELD_VALUE, OwnerRows(root)))
       ELSE sections
  /\ pc' = "tableI"
  /\ UNCHANGED <<form4Idle, missing_sources>>

\* the exception leaves parse_form4_xml
ReportingOwnerRaises ==
  /\ pc = "owner"
  /\ OwnerRaisesAt(root)
  /\ pc' = "raised"
  /\ UNCHANGED <<form4Idle, missing_sources, sections>>

\* the table block and the table record appended when the table has rows
AddTable(secs, sec, headers, rows) ==
  IF rows # <<>>
  THEN [add_block(secs, sec, markdown_table(headers, rows)) EXCEPT
          ![sec].tables = Append(@, [headers |-> headers, data |-> rows])]
  ELSE secs

\* Table I - Non-Derivative
TableI ==
  /\ pc = "tableI"
  /\ sections' =
       IF root.nonDerivativeTable.present
       THEN AddTable(sections, FORM4_CANON_SECTIONS[4], TABLE_I_HEADERS, TableIRows(root))
       ELSE sections
  /\ pc' = "tableII"
  /\ UNCHANGED <<form4Idle, missing_sources>>

\* Table II - Derivative
TableII ==
  /\ pc = "tableII"
  /\ sections' =
       IF root.derivativeTable.present
       THEN AddTable(sections, FORM4_CANON_SECTIONS[5], TABLE_II_HEADERS,
                     root.derivativeTable.transactions)
       ELSE sections
  /\ pc' = "footnotes"
  /\ UNCHANGED <<form4Idle, missing_sources>>

\* Footnotes / Remarks
FootnotesRemarks ==
  /\ pc = "footnotes"
  /\ sections' = AddBlocks(sections, FORM4_CANON_SECTIONS[6], FootnoteTexts(root))
  /\ pc' = "signature"
  /\ UNCHANGED <<form4Idle, missing_sources>>

\* Signature & Date
SignatureDate ==
  /\ pc = "signature"
  /\ sections' =
       IF root.ownerSignature.present
       THEN add_block(add_block(sections, FORM4_CANON_SECTIONS[7],
                                root.ownerSignature.signatureName),
                      FORM4_CANON_SECTIONS[8], root.ownerSignature.signatureDate)
       ELSE sections
  /\ pc' = "chunking"
  /\ UNCHANGED <<form4Idle, missing_sources>>

\* the loop over sections.items(): chunk every section
ChunkStageForm4 ==
  /\ pc = "chunking"
  /\ sections' = [lab \in DOMAIN sections |->
                    [sections[lab] EXCEPT
                       !.chunks = @ \o StageChunks(lab, sections[lab], accession, link_map)]]
  /\ missing_sources' =
       IF (\E lab \in DOMAIN sections : ~sections[lab].missing)
          /\ LinkGet(link_map, accession) = ""
       THEN missing_sources \cup {accession} ELSE missing_sources
  /\ pc' = "parsed"
  /\ UNCHANGED form4Idle

NextForm4 ==
  \/ CoverPage \/ IssuerInformation \/ ReportingOwner \/ ReportingOwnerRaises
  \/ TableI \/ TableII \/ FootnotesRemarks \/ SignatureDate \/ ChunkStageForm4

SpecForm4 == InitForm4 /\ [][NextForm4]_vars

\* ------------------------------------------------------------------------
\* SpecTags: extract_tags applied to one heading
\* ------------------------------------------------------------------------

FORM_4 == "4"

FORM_5 == "5"

\* the parsers whose extract_tags upper-cases the heading
XmlForms == {FORM_4, FORM_5}

\* the pieces the headings are built from
TagFragments ==
  <<<<"R","i","s","k"," ","F","a","c","t","o","r","s"," ">>,
    <<"R","I","S","K"," ","F","a","c","t","o","r","s"," ">>,
    <<"R","a","t","e"," ","a","n","d"," ">>,
    <<"a","n","d"," ">>,
    <<"I","t","e","m"," ","1","A","."," ">>,
    <<"N","o","n","-","D","e","r","i","v","a","t","i","v","e"," ">>,
    <<"M","a","n","a","g","e","m","e","n","t","RSQUO","s"," ","D","i","s","c","u","s","s","i","o","n"," ">>,
    <<" ","R","i","s","k">>>>

MaxTagFrags == 2

InitTags ==
  /\ pc = "tags"
  /\ form_type \in Forms \cup XmlForms
  /\ raw_text \in {Strip(h) : h \in Concats(TagFragments, MaxTagFrags)}
  /\ result = None
  /\ once = <<>>
  /\ twice = <<>>
  /\ ChunkIdle
  /\ ParseIdle
  /\ BatchIdle

\* tags = extract_tags(heading)
ExtractTags ==
  /\ pc = "tags"
  /\ result' = extract_tags(form_type \in XmlForms, raw_text)
  /\ pc' = "tagged"
  /\ UNCHANGED <<form_type, raw_text, once, twice, chunkVars, parseVars, batchVars>>

NextTags == ExtractTags

SpecTags == InitTags /\ [][NextTags]_vars

\* ------------------------------------------------------------------------
\* SpecProvenance: load_links, then the accession, the filing date and the
\* meta of one chunk of one file
\* ------------------------------------------------------------------------

\* entries of a links.json: download_key = form_year_accession
LinkEntries ==
  {[form |-> FORM_10K,
    key |-> <<"1","0","-","K","_","2","0","2","4","_","0","0","0","0","3","2","0","1","9","3","-","2","4","-","0","0","0","0","0","8">>,
    url |-> "https://www.sec.gov/Archives/10-K/a.htm"],
   [form |-> FORM_8K,
    key |-> <<"8","-","K","_","2","0","2","4","_","0","0","0","0","3","2","0","1","9","3","-","2","4","-","0","0","0","0","0","8">>,
    url |-> "https://www.sec.gov/Archives/8-K/a.htm"],
   [form |-> FORM_8K,
    key |-> <<"8","-","K","_","2","0","2","4","_","0","0","0","0","3","2","0","1","9","3","-","2","4","-","0","0","0","0","7","7">>,
    url |-> "https://www.sec.gov/Archives/8-K/b.htm"],
   [form |-> FORM_4,
    key |-> <<"4","_","2","0","2","3","_","0","0","0","0","3","2","0","1","9","3","-","2","3","-","0","0","0","1","0","6">>,
    url |-> "https://www.sec.gov/Archives/4/c.xml"]}

MaxLinkEntries == 2

\* the lists of at most n distinct entries
RECURSIVE EntryLists(_)
EntryLists(n) ==
  IF n = 0 THEN {<<>>}
  ELSE LET shorter == EntryLists(n - 1)
       IN  shorter \cup UNION {{Append(l, e) : e \in {x \in LinkEntries :
                                                          \A k \in 1..Len(l) : l[k] # x}} :
                                 l \in shorter}

\* the entries of one form type are contiguous in the iteration of the file
Grouped(l) ==
  \A i \in 1..Len(l) : \A j \in i..Len(l) : \A k \in i..j :
    l[i].form = l[j].form => l[k].form = l[i].form

LinksFiles == {l \in EntryLists(MaxLinkEntries) : Grouped(l)}

\* file names without suffix: form_year_accession, and two with another
\* last segment
Stems ==
  {<<"1","0","-","K","_","2","0","2","4","_","0","0","0","0","3","2","0","1","9","3","-","2","4","-","0","0","0","0","0","8">>,
   <<"4","_","2","0","2","3","_","0","0","0","0","3","2","0","1","9","3","-","2","3","-","0","0","0","1","0","6">>,
   <<"1","0","-","K","_","2","0","2","4","_","2","0","2","4","0","9","2","8">>,
   <<"r","e","p","o","r","t">>}

InitProvenance ==
  /\ pc = "load"
  /\ form_type \in Forms \cup XmlForms
  /\ raw_text = <<>>
  /\ result = None
  /\ once = <<>>
  /\ twice = <<>>
  /\ ChunkIdle
  /\ BatchIdle
  /\ nodes = <<>>
  /\ root = None
  /\ links_json \in LinksFiles
  /\ fp_stem \in Stems
  /\ filing_date = <<>>
  /\ pos = 0
  /\ txt = <<>>
  /\ canon = None
  /\ current_section = None
  /\ current_sub = None
  /\ sections = <<>>
  /\ accession = ""
  /\ link_map = <<>>
  /\ missing_sources = {}

provenanceIdle ==
  <<textVars, sec_name, sec_missing, tokens, loop_start, batchVars, nodes, root, links_json, fp_stem,
    pos, txt, canon, current_section, current_sub, sections, missing_sources>>

\* link_map = load_links(ticker)
LoadLinks ==
  /\ pc = "load"
  /\ link_map' = load_links(form_type, links_json)
  /\ pc' = "loaded"
  /\ UNCHANGED <<provenanceIdle, chunks, accession, filing_date>>

\* accession = fp.stem.split("_")[-1]; filing_date from the accession
ReadFileName ==
  /\ pc = "loaded"
  /\ accession' = LastSegment(fp_stem)
  /\ filing_date' = FirstEightDigits(accession')
  /\ pc' = "named"
  /\ UNCHANGED <<provenanceIdle, chunks, link_map>>

\* build_meta for a chunk of 40 tokens of the file
BuildMeta ==
  /\ pc = "named"
  /\ chunks' = <<build_meta(CANON_10K[5], 0, 40, accession, link_map)>>
  /\ pc' = "meta"
  /\ UNCHANGED <<provenanceIdle, accession, link_map, filing_date>>

NextProvenance == LoadLinks \/ ReadFileName \/ BuildMeta

SpecProvenance == InitProvenance /\ [][NextProvenance]_vars

\* ------------------------------------------------------------------------
\* SpecLoop: the sliding-window loop of the chunk stage, one iteration per
\* step, for a non-missing section of more than TOKEN_LIMIT tokens
\* ------------------------------------------------------------------------

InitLoop ==
  /\ pc = "walked"
  /\ TextIdle
  /\ BatchIdle
  /\ nodes = <<>>
  /\ root = None
  /\ links_json = <<>>
  /\ fp_stem = <<>>
  /\ filing_date = <<>>
  /\ pos = 0
  /\ txt = <<>>
  /\ canon = None
  /\ current_section = None
  /\ current_sub = None
  /\ sections = <<>>
  /\ sec_name = CANON_10K[13]
  /\ sec_missing = FALSE
  /\ tokens \in (TOKEN_LIMIT + 1)..MaxTokens
  /\ chunks = <<>>
  /\ loop_start = 0
  /\ accession = "0000320193-24-000008"
  /\ link_map \in {[a \in {} |-> ""],
                   [a \in {"0000320193-24-000008"} |-> "https://www.sec.gov/Archives/a.htm"]}
  /\ missing_sources = {}

loopIdle ==
  <<textVars, batchVars, sec_name, sec_missing, tokens, nodes, root, fileVars, pos, txt,
    canon, current_section, current_sub, sections, accession, link_map>>

\* else: words = plain_text.split(); start = 0
EnterLoop ==
  /\ pc = "walked"
  /\ ~sec_missing
  /\ ~FitsOneChunk(tokens)
  /\ loop_start' = 0
  /\ pc' = "loop"
  /\ UNCHANGED <<loopIdle, chunks, missing_sources>>

\* the chunk an iteration appends, and build_meta's note of a missing URL
AppendWindow ==
  /\ pc = "loop"
  /\ loop_start < tokens
  /\ chunks' = Append(chunks, build_meta(sec_name, loop_start,
                                         WindowEnd(loop_start, tokens), accession, link_map))
  /\ missing_sources' = IF LinkGet(link_map, accession) = ""
                        THEN missing_sources \cup {accession} ELSE missing_sources

\* an iteration that ends with  start = end - TOKEN_OVERLAP
EmitWindow ==
  /\ AppendWindow
  /\ WindowEnd(loop_start, tokens) # tokens
  /\ loop_start' = NextStart(WindowEnd(loop_start, tokens))
  /\ pc' = "loop"
  /\ UNCHANGED loopIdle

\* an iteration that ends with  if end == tokens: break
EmitLastWindow ==
  /\ AppendWindow
  /\ WindowEnd(loop_start, tokens) = tokens
  /\ pc' = "chunked"
  /\ UNCHANGED <<loopIdle, loop_start>>

NextLoop == EnterLoop \/ EmitWindow \/ EmitLastWindow

\* the loop runs on: an iteration that can be taken is taken
SpecLoop == InitLoop /\ [][NextLoop]_vars /\ WF_vars(NextLoop)

\* ------------------------------------------------------------------------
\* Properties of the chunk stage (SpecChunk)
\* ------------------------------------------------------------------------

\* C1: for a non-missing section with token count T the chunk ranges cover
\* [0, T) without gaps: the first chunk starts at 0, every later chunk starts
\* no later than the previous chunk's end, and the last chunk ends at T.
C1_CoverageNoGaps ==
  (pc = "chunked" /\ ~sec_missing) =>
    /\ Len(chunks) >= 1
    /\ chunks[1].start_token = 0
    /\ \A k \in 2..Len(chunks) : chunks[k].start_token <= chunks[k - 1].end_token
    /\ chunks[Len(chunks)].end_token = tokens

\* C1 witness: a section of 1000 tokens chunked into three windows.
C1_Witness ==
  /\ pc = "chunked"
  /\ ~sec_missing
  /\ tokens = 1000
  /\ Len(chunks) = 3
  /\ chunks[3].end_token = 1000

\* C2: for T > 512 every chunk spans [start, min(start + 512, T)) and every
\* chunk after the first starts exactly 61 tokens before the previous chunk's
\* end, the pair ending with the final chunk included.
C2_ExactOverlap ==
  (pc = "chunked" /\ ~sec_missing /\ tokens > 512) =>
    /\ Len(chunks) >= 2
    /\ \A k \in 1..Len(chunks) :
         chunks[k].end_token = Min(chunks[k].start_token + 512, tokens)
    /\ \A k \in 1..(Len(chunks) - 1) :
         chunks[k + 1].start_token = chunks[k].end_token - 61

\* C2 witness: 964 tokens: the final chunk holds 62 tokens, 61 of them shared
\* with the chunk before it.
C2_Witness ==
  /\ pc = "chunked"
  /\ ~sec_missing
  /\ tokens = 964
  /\ Len(chunks) = 3
  /\ chunks[3].start_token = 902
  /\ chunks[2].end_token = 963

\* C3: a non-missing section of at most 512 tokens (0 included) gets exactly
\* one chunk, from 0 to T.
C3_SingleChunk ==
  (pc = "chunked" /\ ~sec_missing /\ tokens <= 512) =>
    /\ Len(chunks) = 1
    /\ chunks[1].start_token = 0
    /\ chunks[1].end_token = tokens

\* C3 witness: a non-missing section without any token still gets its chunk.
C3_Witness ==
  /\ pc = "chunked"
  /\ ~sec_missing
  /\ tokens = 0
  /\ Len(chunks) = 1
  /\ chunks[1].end_token = 0

\* C4: every chunk has 0 <= start_token <= end_token, spans at most 512
\* tokens, and records token_count = end_token - start_token.
C4_ChunkBounds ==
  \A k \in 1..Len(chunks) :
    /\ 0 <= chunks[k].start_token
    /\ chunks[k].start_token <= chunks[k].end_token
    /\ chunks[k].end_token - chunks[k].start_token <= 512
    /\ chunks[k].token_count = chunks[k].end_token - chunks[k].start_token

\* C4 witness: 513 tokens: a full chunk of 512 and a second chunk of 62.
C4_Witness ==
  /\ pc = "chunked"
  /\ tokens = 513
  /\ Len(chunks) = 2
  /\ chunks[1].token_count = 512
  /\ chunks[2].start_token = 451
  /\ chunks[2].token_count = 62

\* ------------------------------------------------------------------------
\* Properties of the parse (SpecParse)
\* ------------------------------------------------------------------------

\* C5: a section whose missing flag is true at the end of the walk gets no
\* chunk, and no chunk of the document names it in meta.section.
C5_MissingSkipped ==
  pc = "parsed" =>
    \A lab \in DOMAIN sections :
      sections[lab].missing =>
        /\ sections[lab].chunks = <<>>
        /\ \A other \in DOMAIN sections :
             \A k \in 1..Len(sections[other].chunks) :
               sections[other].chunks[k].meta.section # lab

\* C5 witness: a parsed document in which Item 1A has content and its chunk
\* while the Signatures section, never opened, is missing.
C5_Witness ==
  /\ pc = "parsed"
  /\ ~sections[CANON_10K[5]].missing
  /\ Len(sections[CANON_10K[5]].chunks) = 1
  /\ sections[CANON_10K[5]].chunks[1].meta.token_count = 2
  /\ sections[CANON_10K[28]].missing
  /\ sections[CANON_10K[28]].chunks = <<>>

\* C13 as stated: the 10-K with heading 'ITEM 1A. RISK FACTORS', two text
\* nodes of 40 words in all and heading 'ITEM 1B.' gives section
\* 'Part I - Item 1A. Risk Factors' non-missing with exactly one chunk of
\* token_count 40 whose tags include 'RISK', 'FACTORS' and 'RISK FACTORS'.
C13_AsStated ==
  (pc = "parsed" /\ nodes = RiskFactorsDocument) =>
    /\ ~sections[CANON_10K[5]].missing
    /\ Len(sections[CANON_10K[5]].chunks) = 1
    /\ sections[CANON_10K[5]].chunks[1].meta.token_count = 40
    /\ {<<"R","I","S","K">>,
        <<"F","A","C","T","O","R","S">>,
        <<"R","I","S","K"," ","F","A","C","T","O","R","S">>}
         \subseteq {MetaTags(sections[CANON_10K[5]].chunks[1].meta)[k] :
                      k \in 1..Len(MetaTags(sections[CANON_10K[5]].chunks[1].meta))}

\* C13: that document gives section 'Part I - Item 1A. Risk Factors'
\* non-missing with exactly one chunk of token_count 40; its tags are taken
\* from the canonical label, not from the heading of the document: they are
\* 'A', 'Factors', 'I', 'Item', 'Part I', 'Risk Factors', and the meta of
\* every chunk of every parsed document names the label of its section, from
\* which its tags are computed.
C13_RiskFactorsScenario ==
  pc = "parsed" =>
    /\ \A lab \in DOMAIN sections :
         \A k \in 1..Len(sections[lab].chunks) :
           sections[lab].chunks[k].meta.section = lab
    /\ nodes = RiskFactorsDocument =>
         /\ ~sections[CANON_10K[5]].missing
         /\ Len(sections[CANON_10K[5]].chunks) = 1
         /\ sections[CANON_10K[5]].chunks[1].meta.token_count = 40
         /\ MetaTags(sections[CANON_10K[5]].chunks[1].meta) =
              <<<<"A">>, <<"F","a","c","t","o","r","s">>, <<"I">>, <<"I","t","e","m">>, <<"P","a","r","t"," ","I">>, <<"R","i","s","k"," ","F","a","c","t","o","r","s">>>>

\* C13 witness: the scenario document is parsed, Item 1A holds its two
\* blocks and one chunk, and Item 1B was opened by the second heading.
C13_Witness ==
  /\ pc = "parsed"
  /\ nodes = RiskFactorsDocument
  /\ Len(sections[CANON_10K[5]].html_blocks) = 2
  /\ Len(sections[CANON_10K[5]].chunks) = 1
  /\ ~sections[CANON_10K[6]].missing

\* the cells of the rows of the table at index i, in source order
RowsOf(ns, i) ==
  [r \in 1..Len(FindAll(ns, i, {"tr"})) |->
     LET cells == FindAll(ns, FindAll(ns, i, {"tr"})[r], {"th", "td"})
     IN  [c \in 1..Len(cells) |-> clean_text(GetText(ns, cells[c]))]]

\* the cells of the first row of the table that holds a th, or <<>>
HeaderRowCells(ns, i) ==
  LET trs == FindAll(ns, i, {"tr"})
      hdr == {r \in 1..Len(trs) : FindAll(ns, trs[r], {"th"}) # <<>>}
  IN  IF hdr = {} THEN <<>>
      ELSE RowsOf(ns, i)[CHOOSE r \in hdr : \A q \in hdr : r <= q]

\* the table Tags of the document
TableNodes == {i \in 1..Len(nodes) : nodes[i].tag /\ nodes[i].name = "table"}

\* C16: every table record captured by the parse belongs to a table of the
\* document whose rows it lists in source order, and its headers are the
\* cells of the row that holds th cells, or empty when no row does.
C16_HeaderRow ==
  pc = "parsed" =>
    \A lab \in DOMAIN sections :
      \A k \in 1..Len(sections[lab].tables) :
        \E i \in TableNodes :
          /\ sections[lab].tables[k].data = RowsOf(nodes, i)
          /\ sections[lab].tables[k].headers = HeaderRowCells(nodes, i)

\* the number of lines of a text
LineCount(s) == 1 + Cardinality({i \in 1..Len(s) : s[i] = "NL"})

\* the rows of a table record that are not its header row
DataRows(tbl) == IF tbl.headers = <<>> THEN tbl.data ELSE Tail(tbl.data)

\* C17: the markdown rendering of every captured table stands in a content
\* block of its section and consists of one header row, one separator row
\* and one row per data row; when headers is empty the header row has as
\* many blank cells as the first row has columns and every data row, the
\* first included, is rendered.
C17_AllRowsRendered ==
  pc = "parsed" =>
    \A lab \in DOMAIN sections :
      \A k \in 1..Len(sections[lab].tables) :
        LET tbl == sections[lab].tables[k]
            md  == dict_to_markdown(tbl)
        IN  /\ \E b \in 1..Len(sections[lab].html_blocks) :
                 Contains(sections[lab].html_blocks[b], md)
            /\ LineCount(md) = 2 + Len(DataRows(tbl))
            /\ \A r \in 1..Len(DataRows(tbl)) :
                 Contains(md \o <<"NL">>, <<"NL">> \o MdRow(DataRows(tbl)[r]))
            /\ tbl.headers = <<>> =>
                 MatchAt(md, 1, MdRow([c \in 1..Len(tbl.data[1]) |-> <<>>]))

\* the section holds a content block, a subsection block or a table
HasContent(sec) ==
  sec.html_blocks # <<>> \/ sec.subsections # <<>> \/ sec.tables # <<>>

FlagStep ==
  \A lab \in DOMAIN sections :
    /\ sections'[lab].missing => sections[lab].missing
    /\ (sections[lab].missing /\ ~sections'[lab].missing) =>
         (pc = "node" /\ txt # <<>> /\ canon = lab /\ current_section' = lab)

LABEL_10K_ITEM7 == CANON_10K[13]

\* C6: when the cleaned text holds an item-number token whose key is in the
\* item-id map, match_section returns the map's label for that first token,
\* whatever canonical phrases the text also contains; in particular the 10-K
\* text "Item 7. Unrelated Heading Text" resolves to the Item 7 MD&A label.
C6_ItemIdPrecedence ==
  pc = "matched" =>
    LET cleaned == CleanText(form_type, raw_text)
    IN  /\ (HasItemToken(cleaned) /\ ItemKey(form_type, cleaned) \in ItemMapKeys(form_type))
             => /\ result # None
                /\ result = ItemMapGet(form_type, ItemKey(form_type, cleaned))
        /\ (form_type = FORM_10K /\ raw_text = MatchFragments[1] \o MatchFragments[2])
             => result = LABEL_10K_ITEM7

\* C6 witness: a 10-K text with the token "Item 7." and the conflicting
\* phrase "Signatures" has been matched to the Item 7 label.
C6_Witness ==
  /\ pc = "matched"
  /\ form_type = FORM_10K
  /\ raw_text = MatchFragments[1] \o MatchFragments[3]
  /\ Contains(StrLower(CleanText(form_type, raw_text)), StrLower(CANON_10K[28]))
  /\ result = LABEL_10K_ITEM7

\* C7: without an item-number token the result is the first label, in
\* catalog order, whose dash-normalised lower-cased phrase is a substring of
\* the cleaned lower-cased text, and None when no phrase is contained.
C7_FirstPhraseWins ==
  (pc = "matched" /\ ~HasItemToken(CleanText(form_type, raw_text))) =>
    LET lowered == StrLower(CleanText(form_type, raw_text))
        catalog == RAW_CANON_SECTIONS(form_type)
        phrases == PHRASES(form_type)
        Hit(i)  == Contains(lowered, phrases[i])
    IN  \/ /\ \A i \in 1..Len(catalog) : ~Hit(i)
           /\ result = None
        \/ \E i \in 1..Len(catalog) :
             /\ Hit(i)
             /\ \A j \in 1..(i - 1) : ~Hit(j)
             /\ result = catalog[i]

\* C7 witness: "Signatures" then "COVER PAGE" in a 10-K text: two phrases are
\* contained and the one earlier in the catalog, not in the text, is returned.
C7_Witness ==
  /\ pc = "matched"
  /\ form_type = FORM_10K
  /\ raw_text = MatchFragments[3] \o MatchFragments[4]
  /\ result = CANON_10K[1]

\* the catalog labels in which ITEM_ID_RE finds an item number
ItemBearing(f) ==
  {i \in 1..Len(RAW_CANON_SECTIONS(f)) : ItemKey(f, RAW_CANON_SECTIONS(f)[i]) # <<>>}

\* C8: every item-bearing label of the form's catalog has an entry of its
\* own in the item-id map: as many keys as item-bearing labels, and each such
\* label is the value of its key.
C8_OneEntryPerItemLabel ==
  /\ Cardinality(ItemMapKeys(form_type)) = Cardinality(ItemBearing(form_type))
  /\ \A i \in ItemBearing(form_type) :
       ItemMapGet(form_type, ItemKey(form_type, RAW_CANON_SECTIONS(form_type)[i]))
         = RAW_CANON_SECTIONS(form_type)[i]

\* C9: the normaliser is idempotent.
C9_Idempotent == pc = "renormalized" => twice = once

\* ------------------------------------------------------------------------
\* Properties of the batch loop (SpecBatch)
\* ------------------------------------------------------------------------

\* C10 as stated: at the end success + fail is the number of files and every
\* file that parsed successfully has its artifact; one corrupt file among five
\* gives success = 4 and fail = 1.
C10_AsStated ==
  pc = "done" =>
    /\ success + fail = Len(worklist)
    /\ \A k \in 1..Len(worklist) : ~worklist[k].corrupt => k \in artifacts
    /\ (Len(worklist) = 5 /\ Cardinality(CorruptFiles) = 1) =>
         (success = 4 /\ fail = 1)

\* C10: an exception raised by the parse or by the write is counted as one
\* failure and the loop goes on: at the end success + fail is the number of
\* files, the artifacts written are exactly as many as the successes and
\* belong to files that parsed, every file whose parse raised is a failure
\* without artifact, and with five files, one of them corrupt and every write
\* succeeding, success = 4 and fail = 1.
C10_FailureIsolation ==
  pc = "done" =>
    /\ idx = Len(worklist)
    /\ success + fail = Len(worklist)
    /\ Cardinality(artifacts) = success
    /\ artifacts \subseteq (1..Len(worklist)) \ CorruptFiles
    /\ fail >= Cardinality(CorruptFiles)
    /\ (/\ Len(worklist) = 5
        /\ Cardinality(CorruptFiles) = 1
        /\ artifacts = (1..5) \ CorruptFiles) =>
         (success = 4 /\ fail = 1)

\* C10 witness: five files, the third corrupt, the batch ended with four
\* artifacts, four successes and one failure.
C10_Witness ==
  /\ pc = "done"
  /\ Len(worklist) = 5
  /\ CorruptFiles = {3}
  /\ artifacts = {1, 2, 4, 5}
  /\ success = 4
  /\ fail = 1

\* C11: no exception raised while one file is handled (creating its output
\* directory, parsing, serialising, writing) leaves the batch: main() is
\* never ended by an exception, it is in the loop or has printed the summary.
C11_NothingPropagates == pc \in {"batch", "done"}

\* C12: at the end of the batch, every file that was parsed and written and
\* whose accession has no URL in the links lookup is counted as a success,
\* all its chunks and its document meta carry source_url = "", and its
\* accession is in the unresolved-URL set the summary reports.
C12_UnresolvedReported ==
  pc = "done" =>
    \A k \in artifacts :
      LinkGet(link_map, worklist[k].acc) = "" =>
        /\ success >= 1
        /\ DocSourceUrl(worklist[k], link_map) = ""
        /\ \A c \in 1..Len(ParseChunks(worklist[k], link_map)) :
             ParseChunks(worklist[k], link_map)[c].source_url = ""
        /\ worklist[k].acc \in ReportedUnresolved

\* ------------------------------------------------------------------------
\* Properties of the Form 4 parse (SpecForm4)
\* ------------------------------------------------------------------------

\* the document of the scenario: an issuer block with CIK 0000320193 and a
\* nonDerivativeTable with one nonDerivativeTransaction
IssuerScenario ==
  /\ root.issuer.present
  /\ root.issuer.issuerCik = ISSUER_CIK
  /\ root.nonDerivativeTable.present
  /\ Len(root.nonDerivativeTable.transactions) = 1
  /\ root.nonDerivativeTable.holdings = <<>>

\* the cells of the markdown row holding the CIK
CIK_ROW == <<"|","C","I","K","|">> \o ISSUER_CIK \o <<"|">>

\* C14 as stated: the scenario document gives a non-missing 'Issuer
\* Information' section and a non-missing 'Table I' section whose single
\* chunk's text contains a markdown table row with the CIK.
C14_AsStated ==
  (pc = "parsed" /\ IssuerScenario) =>
    /\ ~sections[FORM4_CANON_SECTIONS[2]].missing
    /\ ~sections[FORM4_CANON_SECTIONS[4]].missing
    /\ Len(sections[FORM4_CANON_SECTIONS[4]].chunks) = 1
    /\ Contains(sections[FORM4_CANON_SECTIONS[4]].chunks[1].text, CIK_ROW)

\* C14: the scenario document gives a non-missing 'Issuer Information'
\* section and a non-missing 'Table I' section, each with a single chunk;
\* the row |CIK|0000320193| is in the text of the chunk of 'Issuer
\* Information', which holds the whole table on one line, and the chunk of
\* 'Table I' holds the header row and the transaction's row, not the CIK.
C14_IssuerAndTableI ==
  (pc = "parsed" /\ IssuerScenario) =>
    /\ ~sections[FORM4_CANON_SECTIONS[2]].missing
    /\ ~sections[FORM4_CANON_SECTIONS[4]].missing
    /\ Len(sections[FORM4_CANON_SECTIONS[2]].chunks) = 1
    /\ Len(sections[FORM4_CANON_SECTIONS[4]].chunks) = 1
    /\ Contains(sections[FORM4_CANON_SECTIONS[2]].chunks[1].text, CIK_ROW)
    /\ \A i \in 1..Len(sections[FORM4_CANON_SECTIONS[2]].chunks[1].text) :
         sections[FORM4_CANON_SECTIONS[2]].chunks[1].text[i] # "NL"
    /\ ~Contains(sections[FORM4_CANON_SECTIONS[4]].chunks[1].text, CIK_ROW)
    /\ Contains(sections[FORM4_CANON_SECTIONS[4]].chunks[1].text,
                clean_text_form4(MdRow(root.nonDerivativeTable.transactions[1])))
    /\ sections[FORM4_CANON_SECTIONS[4]].tables =
         <<[headers |-> TABLE_I_HEADERS, data |-> root.nonDerivativeTable.transactions]>>

\* C14 witness: the scenario document is parsed and the chunk of 'Table I'
\* holds the row of its transaction.
C14_Witness ==
  /\ pc = "parsed"
  /\ IssuerScenario
  /\ root.nonDerivativeTable.transactions[1][2] = <<"1","0","0">>
  /\ Len(sections[FORM4_CANON_SECTIONS[4]].chunks) = 1
  /\ Contains(sections[FORM4_CANON_SECTIONS[2]].chunks[1].text, CIK_ROW)

\* In the Form 4 parser add_block is the only writer of the missing flag:
\* at every point of the parse a section is non-missing if and only if it
\* holds a content block, and a table only together with its block.
Form4MissingIffBlock ==
  \A lab \in DOMAIN sections :
    /\ ~sections[lab].missing <=> sections[lab].html_blocks # <<>>
    /\ sections[lab].tables # <<>> => sections[lab].html_blocks # <<>>

\* ------------------------------------------------------------------------
\* Properties of extract_tags (SpecTags)
\* ------------------------------------------------------------------------

\* the tags returned, as a set
ResultTags == {result[k] : k \in 1..Len(result)}

\* the list has no duplicates and is sorted case-insensitively
SortedNoDuplicates ==
  \A k \in 1..Len(result) : \A l \in (k + 1)..Len(result) :
    /\ result[k] # result[l]
    /\ ~StrLess(StrLower(result[l]), StrLower(result[k]))

\* the tags are the phrases of the given text (under the CAP_SEQ of the
\* HTML parsers, or of the Form 4 and Form 5 parsers when xml), each multi-word phrase
\* with its last word; the first word of a phrase is a tag only when it is
\* a phrase or a last word itself
PhrasesAndLastWords(xml, heading) ==
  LET ms == CapSeqFindAll(xml, heading, 1)
      phrases == {ms[k] : k \in 1..Len(ms)}
      multi == {p \in phrases : Len(Split(p)) > 1}
      lasts == {LastWord(p) : p \in multi}
  IN  /\ ResultTags = phrases \cup lasts
      /\ \A p \in multi : FirstWord(p) \in ResultTags => FirstWord(p) \in phrases \cup lasts

\* C15 as stated: in every parser extract_tags works on the case-preserved
\* heading: the tags are the maximal runs of capitalised words of the
\* heading, each multi-word run with its last word alone and never its first
\* word alone, without duplicates and sorted case-insensitively.
C15_AsStated ==
  pc = "tagged" =>
    /\ PhrasesAndLastWords(FALSE, raw_text)
    /\ \A k \in 1..Len(result) : Contains(raw_text, result[k])
    /\ SortedNoDuplicates

\* C15: in the HTML parsers (10-K, 10-Q, 8-K, DEF 14A) extract_tags works
\* on the case-preserved heading; the Form 4 and Form 5 parsers upper-case
\* the heading first, so their tags are phrases of the upper-cased heading
\* (a word after the first may there start with a digit, & or -).  In every
\* parser each matched phrase is a tag, a multi-word phrase adds its last
\* word and not its first word, and the list has no duplicates and is
\* sorted case-insensitively.
C15_TagsOfHeading ==
  pc = "tagged" =>
    /\ form_type \in Forms =>
         /\ PhrasesAndLastWords(FALSE, raw_text)
         /\ \A k \in 1..Len(result) : Contains(raw_text, result[k])
    /\ form_type \in XmlForms =>
         /\ PhrasesAndLastWords(TRUE, StrUpper(raw_text))
         /\ \A k \in 1..Len(result) :
              /\ Contains(StrUpper(raw_text), result[k])
              /\ result[k] = StrUpper(result[k])
    /\ SortedNoDuplicates

\* C15 witness: an HTML parser tagged 'and RISK Factors' with 'Factors'
\* and 'RISK Factors'.
C15_Witness ==
  /\ pc = "tagged"
  /\ form_type = FORM_10K
  /\ raw_text = <<"a","n","d"," ","R","I","S","K"," ","F","a","c","t","o","r","s">>
  /\ result = <<<<"F","a","c","t","o","r","s">>,
                <<"R","I","S","K"," ","F","a","c","t","o","r","s">>>>

\* a Form 4 parse tagged a heading holding lower-case letters
C15_WitnessUpperCased ==
  /\ pc = "tagged"
  /\ form_type = FORM_4
  /\ raw_text = <<"R","i","s","k"," ","F","a","c","t","o","r","s">>
  /\ result = <<<<"F","A","C","T","O","R","S">>,
                <<"R","I","S","K"," ","F","A","C","T","O","R","S">>>>

\* ------------------------------------------------------------------------
\* Properties of the provenance of a chunk (SpecProvenance)
\* ------------------------------------------------------------------------

\* C19: the lookup a parser loads holds only entries filed under its form
\* type, and the source_url of a chunk is empty or a URL recorded under the
\* parser's form type.
C19_OnlyOwnForm ==
  /\ pc \in {"loaded", "named", "meta"} =>
       \A a \in DOMAIN link_map :
         \E k \in 1..Len(links_json) :
           /\ links_json[k].form = form_type
           /\ LastSegment(links_json[k].key) = a
           /\ links_json[k].url = link_map[a]
  /\ pc = "meta" =>
       \/ chunks[1].source_url = ""
       \/ \E k \in 1..Len(links_json) :
            /\ links_json[k].form = form_type
            /\ links_json[k].url = chunks[1].source_url

\* a string of eight digits with month 01-12 and day 01-31
IsCalendarDate(s) ==
  /\ Len(s) = 8
  /\ \A i \in 1..8 : IsDigit(s[i])
  /\ SubSeq(s, 5, 6) \in {<<"0", d>> : d \in DIGITS \ {"0"}}
                           \cup {<<"1","0">>, <<"1","1">>, <<"1","2">>}
  /\ SubSeq(s, 7, 8) \in ({<<a, b>> : a \in {"0","1","2"}, b \in DIGITS}
                            \cup {<<"3","0">>, <<"3","1">>}) \ {<<"0","0">>}

\* an accession of the usual form: ten digits, two digits, six digits
UsualAccession(a) ==
  /\ Len(a) = 20
  /\ a[11] = "-"
  /\ a[14] = "-"
  /\ \A i \in (1..20) \ {11, 14} : IsDigit(a[i])

\* C20: the filing_date of every chunk is the empty string or an 8-digit
\* YYYYMMDD calendar date (month 01-12, day 01-31), and for an accession of
\* the usual form it is not a run of digits taken from the accession.
C20_FilingDate ==
  pc = "meta" =>
    /\ filing_date = <<>> \/ IsCalendarDate(filing_date)
    /\ (UsualAccession(accession) /\ filing_date # <<>>) =>
         \A i \in 1..13 : SubSeq(accession, i, i + 7) # filing_date

\* ------------------------------------------------------------------------
\* Properties of the transitions of the walk (SpecParse)
\* ------------------------------------------------------------------------

\* the content lists of a section: blocks, subsection buckets and tables
ContentOf(sec) == <<sec.html_blocks, sec.subsections, sec.tables>>

\* the step handles a node whose text matches a canonical label
HeadingStep == pc = "node" /\ txt # <<>> /\ canon # None /\ pc' = "walk"

\* C21: whenever the text of a node matches a canonical label,
\* current_section becomes that label, current_sub becomes none, the
\* section's missing flag becomes false, and the text is added to no content
\* list, subsection bucket or table list of any section; no other section
\* changes.
C21_HeadingTransition ==
  [][HeadingStep =>
       /\ current_section' = canon
       /\ current_sub' = None
       /\ ~sections'[canon].missing
       /\ \A lab \in DOMAIN sections :
            /\ ContentOf(sections'[lab]) = ContentOf(sections[lab])
            /\ sections'[lab].chunks = sections[lab].chunks
            /\ lab # canon => sections'[lab] = sections[lab]]_vars

\* C21 witness: Item 1A was opened, the <b> node made 'Overview' the active
\* subsection, and the Signatures heading then opened its section with no
\* active subsection.
C21_Witness ==
  /\ pc = "walk"
  /\ nodes = Elements[1] \o Elements[5] \o Elements[2]
  /\ pos = Len(nodes)
  /\ current_section = CANON_10K[28]
  /\ current_sub = None
  /\ ~sections[CANON_10K[28]].missing
  /\ ~HasContent(sections[CANON_10K[28]])

\* the step handles a node while no section is open, and the node's text
\* matches no canonical label
FrontMatterStep == pc = "node" /\ current_section = None /\ canon = None

\* C22: while current_section is none, handling a node that matches no
\* canonical label leaves the state of every section unchanged (nothing
\* added, missing still true) and leaves current_sub none, also when the
\* node is a subheading or a table; until the first heading every section
\* is in its initial state.
C22_FrontMatterDiscarded ==
  /\ [][FrontMatterStep =>
          /\ sections' = sections
          /\ current_section' = None
          /\ current_sub' = None]_vars
  /\ [](current_section = None =>
          /\ current_sub = None
          /\ \A lab \in DOMAIN sections : sections[lab] = EmptySection)

\* C22 witness: a <b> node, a table and a paragraph were walked before any
\* heading; no section is open and nothing was recorded.
C22_Witness ==
  /\ pc = "walk"
  /\ nodes = Elements[5] \o Elements[7] \o Elements[3]
  /\ pos = Len(nodes)
  /\ current_section = None
  /\ current_sub = None
  /\ \A lab \in DOMAIN sections : sections[lab] = EmptySection

\* the step handles a node with non-empty text
NodeStep == pc = "node" /\ txt # <<>> /\ pc' # "node"

\* the number of content blocks of a section, over its block list and its
\* subsection buckets
BlockCount(sec) ==
  Len(sec.html_blocks)
    + Len(Flatten([k \in 1..Len(sec.subsections) |-> sec.subsections[k][2]]))

\* the block appended last to the bucket of subsection sub of a section, or
\* to its block list when sub is none
LastBlock(sec, sub) ==
  IF sub = None THEN sec.html_blocks[Len(sec.html_blocks)]
  ELSE LET b == (CHOOSE k \in 1..Len(sec.subsections) : sec.subsections[k][1] = sub)
       IN  sec.subsections[b][2][Len(sec.subsections[b][2])]

\* the effect of a step on the walker's state is that of a heading
HeadingEffect ==
  /\ current_section' = canon
  /\ current_sub' = None
  /\ \A lab \in DOMAIN sections : ContentOf(sections'[lab]) = ContentOf(sections[lab])

\* the step changes neither the open section and subsection nor any section
NoEffect ==
  /\ current_section' = current_section
  /\ current_sub' = current_sub
  /\ sections' = sections

\* the step only sets current_sub to the node's text
SubheadingEffect ==
  /\ current_section' = current_section
  /\ current_sub' = txt
  /\ sections' = sections

\* the step captures one table record in the open section and adds no
\* text to a subsection bucket, or the table raises
TableEffect ==
  \/ pc' = "raised" /\ NoEffect
  \/ /\ current_section' = current_section
     /\ current_sub' = current_sub
     /\ Len(sections'[current_section].tables) = Len(sections[current_section].tables) + 1
     /\ sections'[current_section].subsections = sections[current_section].subsections

\* the step adds one block of text and no table
ContentEffect ==
  /\ current_section' = current_section
  /\ current_sub' = current_sub
  /\ sections'[current_section].tables = sections[current_section].tables
  /\ BlockCount(sections'[current_section]) = BlockCount(sections[current_section]) + 1
  /\ LastBlock(sections'[current_section], current_sub) = txt

\* C23: for each node with non-empty text exactly one transition is taken,
\* the first that applies in the order section heading, skip while no
\* section is open, subheading, table, plain content; a subheading node only
\* sets current_sub, and a table record is captured only for a table node
\* that matched no canonical label and is no subheading.
C23_TransitionPrecedence ==
  [][NodeStep =>
       /\ CASE canon # None -> HeadingEffect
            [] canon = None /\ current_section = None -> NoEffect
            [] canon = None /\ current_section # None
                 /\ detect_subheading(nodes, pos + 1) -> SubheadingEffect
            [] canon = None /\ current_section # None
                 /\ ~detect_subheading(nodes, pos + 1)
                 /\ nodes[pos + 1].name = "table" -> TableEffect
            [] OTHER -> ContentEffect
       /\ (\E lab \in DOMAIN sections : sections'[lab].tables # sections[lab].tables) =>
            /\ nodes[pos + 1].name = "table"
            /\ canon = None
            /\ ~detect_subheading(nodes, pos + 1)]_vars

\* C23 witness: after the Item 1A heading a table whose text is 'TOTAL
\* ASSETS' was handled as a subheading: it set current_sub and no table
\* record and no content was captured.
C23_Witness ==
  /\ pc = "walk"
  /\ nodes = Elements[1] \o UpperCaseTable
  /\ pos = Len(nodes)
  /\ current_section = CANON_10K[5]
  /\ current_sub = <<"T","O","T","A","L"," ","A","S","S","E","T","S">>
  /\ ~HasContent(sections[CANON_10K[5]])

\* the step handles a plain content node: non-empty text that matches no
\* label, in an open section, no subheading and no table
ContentStep ==
  /\ NodeStep
  /\ canon = None
  /\ current_section # None
  /\ ~detect_subheading(nodes, pos + 1)
  /\ nodes[pos + 1].name # "table"

\* the buckets new are the buckets old with block added to the bucket
\* titled sub, which is created at the end when there is none
BucketGrown(old, new, sub, block) ==
  IF \E k \in 1..Len(old) : old[k][1] = sub
  THEN /\ Len(new) = Len(old)
       /\ \A k \in 1..Len(old) :
            new[k] = IF old[k][1] = sub THEN <<sub, old[k][2] \o <<block>> >> ELSE old[k]
  ELSE new = old \o << <<sub, <<block>> >> >>

\* C24: the normalised text of a plain content node is appended to exactly
\* one bucket of the current section: the bucket of the current subsection
\* when one is active, else the section's content list; the section's
\* tables, chunks and missing flag and every other section are unchanged.
C24_ContentRouting ==
  [][ContentStep =>
       /\ txt = clean_text(GetText(nodes, pos + 1))
       /\ \A lab \in DOMAIN sections \ {current_section} : sections'[lab] = sections[lab]
       /\ sections'[current_section].tables = sections[current_section].tables
       /\ sections'[current_section].chunks = sections[current_section].chunks
       /\ sections'[current_section].missing = sections[current_section].missing
       /\ IF current_sub = None
          THEN /\ sections'[current_section].html_blocks =
                    sections[current_section].html_blocks \o <<txt>>
               /\ sections'[current_section].subsections =
                    sections[current_section].subsections
          ELSE /\ sections'[current_section].html_blocks =
                    sections[current_section].html_blocks
               /\ BucketGrown(sections[current_section].subsections,
                              sections'[current_section].subsections,
                              current_sub, txt)]_vars

\* C24 witness: under Item 1A the <b> node opened the subsection
\* 'Overview' and the paragraph 'alpha beta' went to its bucket only.
C24_Witness ==
  /\ pc = "walk"
  /\ nodes = Elements[1] \o Elements[5] \o Elements[3]
  /\ pos = Len(nodes)
  /\ sections[CANON_10K[5]].html_blocks = <<>>
  /\ sections[CANON_10K[5]].subsections =
       << << <<"O","v","e","r","v","i","e","w">>,
             << <<"a","l","p","h","a"," ","b","e","t","a">> >> >> >>
  /\ \A lab \in DOMAIN sections \ {CANON_10K[5]} : sections[lab] = EmptySection

\* the text of the node that follows the subtree of the Tag at index i,
\* its next sibling, or the empty text at the end of the document
NextSiblingText(ns, i) ==
  IF i + ns[i].size < Len(ns) THEN clean_text(GetText(ns, i + ns[i].size + 1))
  ELSE <<>>

\* the text of the node that precedes the Tag at index i in the document
PrecedingText(ns, i) == IF i > 1 THEN clean_text(GetText(ns, i - 1)) ELSE <<>>

\* C25: every captured table record has as pre_context the text of the
\* content immediately preceding its table and as post_context the text of
\* the content immediately following the table, its next sibling, never
\* text from inside the table.
C25_TableContext ==
  \A lab \in DOMAIN sections :
    \A k \in 1..Len(sections[lab].tables) :
      \E i \in TableNodes :
        /\ sections[lab].tables[k].data = RowsOf(nodes, i)
        /\ sections[lab].tables[k].pre_context = PrecedingText(nodes, i)
        /\ sections[lab].tables[k].post_context = NextSiblingText(nodes, i)

\* the node at index i lies inside an element that precedes it in the list
Nested(ns, i) == \E a \in 1..(i - 1) : ns[a].tag /\ a + ns[a].size >= i

\* C30: each piece of document text is attributed at most once: a node that
\* lies inside an element already handled with its full subtree text is
\* not processed again, so handling it changes no section and neither the
\* open section nor the open subsection.
C30_TextAttributedOnce ==
  [][(NodeStep /\ Nested(nodes, pos + 1)) =>
       /\ sections' = sections
       /\ current_section' = current_section
       /\ current_sub' = current_sub]_vars

\* The walk read off the document: for each index i of the node list, the
\* text of the node, and for a Tag with non-empty text the branch the loop
\* takes ("heading", "skip", "subheading", "table", "content") with the
\* section and subsection open when the node is handled.
RECURSIVE Replay(_, _, _)
Replay(ns, texts, done) ==
  IF Len(done) = Len(ns) THEN done
  ELSE LET i    == Len(done) + 1
           sec  == IF i = 1 THEN None ELSE done[i - 1].after_sec
           sub  == IF i = 1 THEN None ELSE done[i - 1].after_sub
           lab  == IF ns[i].tag /\ texts[i] # <<>>
                   THEN match_section(FORM_10K, texts[i]) ELSE None
           kind == IF ~ns[i].tag \/ texts[i] = <<>> THEN "none"
                   ELSE IF lab # None THEN "heading"
                   ELSE IF sec = None THEN "skip"
                   ELSE IF detect_subheading(ns, i) THEN "subheading"
                   ELSE IF ns[i].name = "table" THEN "table"
                   ELSE "content"
       IN  Replay(ns, texts,
                  Append(done,
                         [kind |-> kind, sec |-> sec, sub |-> sub,
                          after_sec |-> IF kind = "heading" THEN lab ELSE sec,
                          after_sub |-> IF kind = "heading" THEN None
                                        ELSE IF kind = "subheading" THEN texts[i]
                                        ELSE sub]))

\* the texts of the nodes of a document
NodeTexts(ns) == [i \in 1..Len(ns) |-> clean_text(GetText(ns, i))]

\* the block a table node contributes: context, rendering, context
TableBlock(ns, texts, i) ==
  LET pre  == IF i > 1 THEN texts[i - 1] ELSE <<>>
      post == IF i < Len(ns) THEN texts[i + 1] ELSE <<>>
  IN  pre \o <<"NL", "NL">> \o dict_to_markdown(table_to_dict(ns, i, pre, post))
          \o <<"NL", "NL">> \o post

\* the block of the node at index i
BlockOf(ns, texts, walk, i) ==
  IF walk[i].kind = "table" THEN TableBlock(ns, texts, i) ELSE texts[i]

\* the node at index i gives a section-level block of lab: content seen
\* while no subsection is open, or a table
IsSectionLevel(walk, i, lab) ==
  /\ walk[i].sec = lab
  /\ walk[i].kind = "table" \/ (walk[i].kind = "content" /\ walk[i].sub = None)

\* the node at index i is content of subsection sub of section lab
IsSubContent(walk, i, lab, sub) ==
  walk[i].kind = "content" /\ walk[i].sec = lab /\ walk[i].sub = sub /\ sub # None

\* the section-level blocks of a label in document order
SectionLevelBlocks(ns, texts, walk, lab) ==
  Flatten([i \in 1..Len(ns) |->
             IF IsSectionLevel(walk, i, lab) THEN <<BlockOf(ns, texts, walk, i)>> ELSE <<>>])

\* the subsection blocks of a label, grouped by title in the order of the
\* first content of each title
SubsectionBlocks(ns, texts, walk, lab) ==
  Flatten([i \in 1..Len(ns) |->
             IF /\ IsSubContent(walk, i, lab, walk[i].sub)
                /\ \A j \in 1..(i - 1) : ~IsSubContent(walk, j, lab, walk[i].sub)
             THEN Flatten([j \in 1..Len(ns) |->
                             IF IsSubContent(walk, j, lab, walk[i].sub)
                             THEN <<texts[j]>> ELSE <<>>])
             ELSE <<>>])

\* the positions of subsection content of a label that is followed by a
\* section-level block of the label
SubContentBeforeSectionLevel(walk, lab) ==
  {i \in 1..Len(walk) :
     /\ IsSubContent(walk, i, lab, walk[i].sub)
     /\ \E j \in (i + 1)..Len(walk) : IsSectionLevel(walk, j, lab)}

\* all blocks of a label in document order
DocumentOrderBlocks(ns, texts, walk, lab) ==
  Flatten([i \in 1..Len(ns) |->
             IF walk[i].sec = lab /\ walk[i].kind \in {"table", "content"}
             THEN <<BlockOf(ns, texts, walk, i)>> ELSE <<>>])

\* the chunk text of a label read off the document
ExpectedText(ns, texts, walk, lab) ==
  Join(<<"NL">>, SectionLevelBlocks(ns, texts, walk, lab)
                   \o SubsectionBlocks(ns, texts, walk, lab))

\* C29: the text chunked for a section is its section-level blocks in
\* document order (content seen before any subheading and every table
\* rendering, also one captured while a subsection is open), followed by
\* the subsection blocks grouped by title in the order of each title's
\* first content; the blocks of a section opened again, or of a repeated
\* title, are merged into the same lists; the text is the blocks in document
\* order when no second title has content and no subsection content is
\* followed by section-level content.
C29_ChunkTextOrder ==
  pc = "parsed" =>
    LET texts == NodeTexts(nodes)
        walk  == Replay(nodes, texts, <<>>)
    IN  \A lab \in DOMAIN sections :
          /\ sections[lab].missing <=>
               (\A i \in 1..Len(nodes) : ~(walk[i].kind = "heading" /\ walk[i].after_sec = lab))
          /\ ~sections[lab].missing =>
               /\ Len(sections[lab].chunks) = 1
               /\ sections[lab].chunks[1].text = ExpectedText(nodes, texts, walk, lab)
               /\ (/\ SubContentBeforeSectionLevel(walk, lab) = {}
                   /\ Len(sections[lab].subsections) <= 1) =>
                    sections[lab].chunks[1].text =
                      Join(<<"NL">>, DocumentOrderBlocks(nodes, texts, walk, lab))

\* C29 witness: under Item 1A the paragraph 'alpha beta' of subsection
\* 'Overview' precedes a table in the document, and in the chunk text the
\* table's block comes first.
C29_Witness ==
  /\ pc = "parsed"
  /\ nodes = SubsectionThenTable
  /\ SubContentBeforeSectionLevel(Replay(nodes, NodeTexts(nodes), <<>>), CANON_10K[5]) # {}
  /\ MatchAt(sections[CANON_10K[5]].chunks[1].text, 1,
             <<"a","l","p","h","a"," ","b","e","t","a","NL","NL","|","h","|">>)
  /\ sections[CANON_10K[5]].chunks[1].text
       # Join(<<"NL">>, DocumentOrderBlocks(nodes, NodeTexts(nodes),
                                           Replay(nodes, NodeTexts(nodes), <<>>),
                                           CANON_10K[5]))

\* C29 witness of merging: Item 1A was opened twice and its chunk holds the
\* paragraphs of both visits.
C29_WitnessReopened ==
  /\ pc = "parsed"
  /\ nodes = ReopenedSection
  /\ sections[CANON_10K[5]].chunks[1].text =
       <<"a","l","p","h","a"," ","b","e","t","a","NL","a","l","p","h","a"," ","b","e","t","a">>

\* ------------------------------------------------------------------------
\* Further properties of match_section (SpecMatch)
\* ------------------------------------------------------------------------

\* C26: only a hit in the item-id map ends the match: for a text with an
\* item-number token that is no key of the map the result is that of the
\* phrase search, so a text that contains a canonical phrase resolves to
\* that phrase's label.
C26_MissFallsThrough ==
  pc = "matched" =>
    LET cleaned == CleanText(form_type, raw_text)
    IN  (HasItemToken(cleaned) /\ ItemKey(form_type, cleaned) \notin ItemMapKeys(form_type))
          => result = FirstPhraseMatch(form_type, DashFix(StrLower(cleaned)))

\* C28: match_section applied to the text of a label of the form's catalog
\* returns that label.
C28_SelfRecognition ==
  (pc = "matched" /\ raw_text \in Labels(RAW_CANON_SECTIONS(form_type))) => result = raw_text

\* ------------------------------------------------------------------------
\* Termination of the chunking loop (SpecLoop)
\* ------------------------------------------------------------------------

\* ceil(a / b) for a >= 0 and b > 0
CeilDiv(a, b) == (a + b - 1) \div b

\* C27: for every token count T > 512 the chunking loop ends: the end_token
\* of each chunk is strictly greater than that of the chunk before it, so
\* every chunk after the first holds at least one new token, and when the
\* loop has ended the last chunk ends at T and exactly
\* 1 + ceil((T - 512) / (512 - 61)) chunks were emitted.
C27_LoopTerminates ==
  /\ <>(pc = "chunked")
  /\ [](TOKEN_LIMIT = 512 /\ TOKEN_OVERLAP = 61)
  /\ [](\A k \in 2..Len(chunks) : chunks[k].end_token > chunks[k - 1].end_token)
  /\ [](pc = "chunked" =>
          /\ chunks[Len(chunks)].end_token = tokens
          /\ Len(chunks) = 1 + CeilDiv(tokens - TOKEN_LIMIT, TOKEN_LIMIT - TOKEN_OVERLAP))

\* C27 witness: 1866 tokens, one more than four full strides: the loop has
\* ended after five chunks and the fifth holds one new token.
C27_Witness ==
  /\ pc = "chunked"
  /\ loop_start = 1804
  /\ tokens = 1866
  /\ Len(chunks) = 5
  /\ chunks[4].end_token = 1865
  /\ chunks[5].start_token = 1804
  /\ chunks[5].end_token = 1866
=============================================================================
